---- MODULE Spec2Model ----
(***************************************************************************)
(* Stream Wars: the real-time state synchronisation engine.                *)
(*                                                                         *)
(* The model follows the asynchronous handlers of the repository step by   *)
(* step.  Every `await` on the Redis store is a point where other handlers *)
(* may run, so a handler is a small process with a program counter and its *)
(* local variables; one action is one run of a handler between two awaits. *)
(* The two hset commands with which every writer updates the active hash   *)
(* and the all-time hash are taken as one step.                            *)
(***************************************************************************)
EXTENDS Integers, Sequences, FiniteSets, TLC

(* ------------------------------------------------------------------ *)
(* Bounds of the model                                                *)
(* ------------------------------------------------------------------ *)
\* Tap requests accepted in a run of the whole system.
MaxTaps == 1

\* Tap requests accepted in a run of the tap pipeline alone.
MaxPipelineTaps == 3

\* user_join messages a connection may send.
MaxJoins == 1

\* Handlers that may be between two awaits at the same time.
MaxInFlight == 2

\* user_join messages replayed on one joined connection, at most.
MaxReplays == 2

\* Entries of a tap history passed to calculateTapMetrics, at most.
MaxHistory == 5

\* Pings the gateway sends on the connection whose latency probe is followed.
MaxPings == 5

\* getGameState calls that lead to a game_update frame, at most.
MaxUpdates == 3

\* Taps applied while game_update frames are followed, at most.
MaxIncrs == 2

\* Calls of initializeKafka one caller makes, at most.
MaxInitCalls == 2

\* Messages of an unknown type the gateway receives, at most.
MaxUnknown == 1

(* ------------------------------------------------------------------ *)
(* Values                                                             *)
(* ------------------------------------------------------------------ *)
Users == {"u1", "u2"}

Clients == {"c1", "c2"}

Teams == {"blue", "red"}

NumPartitions == 3

NoTeam == "none"

NoUserId == "none"

\* An absent hash entry / a null User.
NoUser ==
  [team |-> NoTeam, tapCount |-> 0, reconnectCount |-> 0, activeSessions |-> 0,
   lastDisconnectTime |-> 0, sessionStartTime |-> 0, firstTapTime |-> 0,
   visitCount |-> 0, lastVisitTime |-> 0]

\* The User object handleUserJoin builds (websocket.ts): the optional fields
\* it does not list are absent from the stored JSON.
JoinedUser(team, tapCount, reconnectCount) ==
  [team |-> team, tapCount |-> tapCount, reconnectCount |-> reconnectCount,
   activeSessions |-> 0, lastDisconnectTime |-> 0, sessionStartTime |-> 1,
   firstTapTime |-> 0,
   visitCount |-> 0, lastVisitTime |-> 0]

\* The User object handleUserJoin builds (websocket-server.ts).
JoinedUserSimple(team, tapCount) ==
  [team |-> team, tapCount |-> tapCount, reconnectCount |-> 0,
   activeSessions |-> 0, lastDisconnectTime |-> 0, sessionStartTime |-> 0,
   firstTapTime |-> 0,
   visitCount |-> 0, lastVisitTime |-> 0]

NoGameState == [blueScore |-> 0, redScore |-> 0, totalTaps |-> 0, activeUsers |-> 0]

\* No disconnect is being classified.
NoSessionEnd == [eventType |-> "none"]

\* No snapshot has been asked for.
NoResponse == [endpoint |-> "none"]

\* calculateTapMetrics is not being called.
NoTapMetrics == [called |-> "none"]

\* The gateway process after a start without failures: startServer has
\* returned and the process serves.
Serving ==
  [name |-> "gateway", pc |-> "serving", storeReachable |-> TRUE,
   logReachable |-> TRUE, topicsExist |-> TRUE, redisReady |-> TRUE,
   listening |-> TRUE, isInitialized |-> TRUE, consumerRunning |-> TRUE,
   failed |-> FALSE]

\* No fan-out is being followed.
NoFanOut == [kind |-> "none"]

\* No unknown message has been logged.
NoUnknownLog == [count |-> 0, client |-> "none", type |-> "none", joinsBefore |-> 0]

\* No latency probe is being followed.
NoProbe == [binding |-> "none"]

\* No closing connection is being followed.
NoDisconnect == [ending |-> "none"]

\* No sequence of game_update frames is being followed.
NoUpdates == [followed |-> FALSE]

\* The Kafka client module is not being followed.
NoKafka == [followed |-> FALSE]

\* No tap-timestamp list is being followed.
NoTapHistory == [called |-> "none"]

NoMessage == [type |-> "none", gameState |-> NoGameState, user |-> NoUserId, id |-> NoUserId]

VARIABLES
  gatewayImpl,      \* which StandaloneWebSocketServer the process runs
  users,            \* Redis hash game:users (active view)
  allUsers,         \* Redis hash game:all_users (all-time view)
  blueScore,        \* Redis key game:team:blue:score
  redScore,         \* Redis key game:team:red:score
  totalTaps,        \* Redis key game:total:taps
  topic,            \* Kafka topic game-taps: one ordered log per partition
  nextEventId,      \* number of tap events published so far
  clients,          \* gateway map clients: state of every connection id
  clientToUserId,   \* gateway map clientToUserId
  clientPingTimes,  \* gateway map clientPingTimes (an entry is present or not)
  sent,             \* the frame the last step wrote to every connection (if any)
  initialState,     \* sendInitialState still pending, per connection
  join,             \* handleUserJoin in flight, per connection
  leave,            \* handleClientDisconnect in flight, per connection
  tap,              \* POST /api/tap in flight, per request slot
  consumer,         \* the eachMessage callback of the tap consumer
  applied,          \* history: the tap events applied to the store, in order
  joins,            \* user_join messages received so far, per connection
  comebacks,        \* history: comeback session events published, per player
  sessionEnd,       \* the disconnect being classified and its session event
  fanOut,           \* one fan-out over the registered sockets and the writes it made
  response,         \* the last answer of a state snapshot endpoint
  tapMetrics,       \* one call of calculateTapMetrics: its arguments and its result
  process,          \* the operating-system process followed through its start and its end
  tapHistory,       \* the tap-timestamp list of one player and the trackTapTimestamp calls on it
  unknownLog,       \* the console.log lines of handleMessage about unknown message types
  probe,            \* the latency probe of one connection: pings sent, replies, measurements
  disconnect,       \* the handlers the close and error events of one joined connection start
  updates,          \* the getGameState calls of one gateway process and the game_update frames they lead to
  kafka             \* the module state of kafka.ts and the initializeKafka calls of one process

storeVars == <<users, allUsers, blueScore, redScore, totalTaps>>

counterVars == <<blueScore, redScore, totalTaps>>

vars == <<gatewayImpl, users, allUsers, blueScore, redScore, totalTaps, topic,
          nextEventId, clients, clientToUserId, clientPingTimes, sent,
          initialState, join, leave, tap, consumer, applied, joins,
          comebacks, sessionEnd,
          fanOut,
          response,
          tapMetrics,
          process,
          tapHistory,
          unknownLog,
          probe,
          disconnect,
          updates,
          kafka>>

\* The variables that only the specifications of single functions change.
auxVars == <<sessionEnd, fanOut, response, tapMetrics, process, tapHistory, unknownLog, probe, disconnect, updates, kafka>>

\* The variables of the game itself.
gameVars == <<gatewayImpl, storeVars, topic, nextEventId, clients,
              clientToUserId, clientPingTimes, sent, initialState, join,
              leave, tap, consumer, applied, joins, comebacks>>

\* Every variable of auxVars but the named one is at rest.
auxIdleExcept(name) ==
  /\ IF name = "sessionEnd" THEN TRUE ELSE sessionEnd = NoSessionEnd
  /\ IF name = "fanOut" THEN TRUE ELSE fanOut = NoFanOut
  /\ IF name = "response" THEN TRUE ELSE response = NoResponse
  /\ IF name = "tapMetrics" THEN TRUE ELSE tapMetrics = NoTapMetrics
  /\ IF name = "process" THEN TRUE ELSE process = Serving
  /\ IF name = "tapHistory" THEN TRUE ELSE tapHistory = NoTapHistory
  /\ IF name = "unknownLog" THEN TRUE ELSE unknownLog = NoUnknownLog
  /\ IF name = "probe" THEN TRUE ELSE probe = NoProbe
  /\ IF name = "disconnect" THEN TRUE ELSE disconnect = NoDisconnect
  /\ IF name = "updates" THEN TRUE ELSE updates = NoUpdates
  /\ IF name = "kafka" THEN TRUE ELSE kafka = NoKafka

\* A step leaves every variable of auxVars but the named one as it is.
auxUnchangedExcept(name) ==
  /\ IF name = "sessionEnd" THEN TRUE ELSE UNCHANGED sessionEnd
  /\ IF name = "fanOut" THEN TRUE ELSE UNCHANGED fanOut
  /\ IF name = "response" THEN TRUE ELSE UNCHANGED response
  /\ IF name = "tapMetrics" THEN TRUE ELSE UNCHANGED tapMetrics
  /\ IF name = "process" THEN TRUE ELSE UNCHANGED process
  /\ IF name = "tapHistory" THEN TRUE ELSE UNCHANGED tapHistory
  /\ IF name = "unknownLog" THEN TRUE ELSE UNCHANGED unknownLog
  /\ IF name = "probe" THEN TRUE ELSE UNCHANGED probe
  /\ IF name = "disconnect" THEN TRUE ELSE UNCHANGED disconnect
  /\ IF name = "updates" THEN TRUE ELSE UNCHANGED updates
  /\ IF name = "kafka" THEN TRUE ELSE UNCHANGED kafka

(* ------------------------------------------------------------------ *)
(* redis.ts                                                           *)
(* ------------------------------------------------------------------ *)
\* getUser: the active hash first, then the all-time hash.
getUser(userId) ==
  IF users[userId] # NoUser THEN users[userId] ELSE allUsers[userId]

\* getGameState: the three counters and hlen of the active hash.
getGameState ==
  [blueScore |-> blueScore, redScore |-> redScore, totalTaps |-> totalTaps,
   activeUsers |-> Cardinality({u \in Users : users[u] # NoUser})]

\* The per-team counts balanceTeamAssignment takes over getAllUsers().
blueCount(active) == Cardinality({u \in Users : active[u].team = "blue"})

redCount(active) ==
  Cardinality({u \in Users : active[u] # NoUser /\ active[u].team # "blue"})

\* A Balancer that sends the new player to the team with more players.
balanceTeamAssignment_larger(active) ==
  IF blueCount(active) = redCount(active) THEN Teams
  ELSE IF blueCount(active) < redCount(active) THEN {"red"} ELSE {"blue"}

\* balanceTeamAssignment: the set of teams it may return for an active view.
balanceTeamAssignment(active) ==
  IF blueCount(active) = redCount(active) THEN Teams
  ELSE IF blueCount(active) < redCount(active) THEN {"blue"} ELSE {"red"}

\* hset of one record into both hashes (addUser and every read-modify-write
\* helper end with this pair).
hsetBoth(userId, user) ==
  /\ users' = [users EXCEPT ![userId] = user]
  /\ allUsers' = [allUsers EXCEPT ![userId] = user]

\* A removeUser that deletes the player from the all-time hash as well.
removeUser_everywhere(userId) ==
  /\ users' = [users EXCEPT ![userId] = NoUser]
  /\ allUsers' = [allUsers EXCEPT ![userId] = NoUser]
  /\ UNCHANGED counterVars

\* A removeUser that takes the leaving player's taps out of the counters.
removeUser_subtractTaps(userId) ==
  /\ users' = [users EXCEPT ![userId] = NoUser]
  /\ UNCHANGED allUsers
  /\ IF users[userId].team = "blue"
     THEN blueScore' = blueScore - users[userId].tapCount /\ UNCHANGED redScore
     ELSE redScore' = redScore - users[userId].tapCount /\ UNCHANGED blueScore
  /\ totalTaps' = totalTaps - users[userId].tapCount

\* removeUser: hdel on the active hash only; no other key is written.
\* (resetGameState, which deletes every key, is called by no handler and is
\* not an action of the model.)
removeUser(userId) ==
  /\ users' = [users EXCEPT ![userId] = NoUser]
  /\ UNCHANGED allUsers
  /\ UNCHANGED counterVars


(* ------------------------------------------------------------------ *)
(* Kafka topic game-taps                                              *)
(* ------------------------------------------------------------------ *)
Partitions == 0 .. (NumPartitions - 1)

\* The default partitioner hashes the message key.
keyHash(key) == CASE key = "u1" -> 1 [] key = "u2" -> 2

\* A producer that sends without a key: the partitions are taken in turn.
partitionOf_roundRobin(tapEvent) == tapEvent.id % NumPartitions

\* producer.send({ messages: [{ key: userId, ... }] }): the partition a tap
\* event is appended to is the hash of its user id modulo the partitions.
partitionOf(tapEvent) == keyHash(tapEvent.userId) % NumPartitions

(* ------------------------------------------------------------------ *)
(* Frames and fan-out (websocket.ts, websocket-server.ts)             *)
(* ------------------------------------------------------------------ *)
gameUpdate(gameState, userId) ==
  [type |-> "game_update", gameState |-> gameState, user |-> userId, id |-> NoUserId]

\* The latency probe frames { type: 'ping' } and { type: 'pong' }.
pingMessage == [type |-> "ping", gameState |-> NoGameState, user |-> NoUserId, id |-> NoUserId]

pongMessage == [type |-> "pong", gameState |-> NoGameState, user |-> NoUserId, id |-> NoUserId]

userLeft(userId) ==
  [type |-> "user_left", gameState |-> NoGameState, user |-> NoUserId, id |-> userId]

\* No frame is written.
noFrames == [c \in Clients |-> NoMessage]

\* Only a socket whose readyState is OPEN is written to.
isOpen(conns, c) == conns[c] = "open"

\* sendToClient: the frame goes to clientId if its socket is registered and OPEN.
sendToClient(conns, frames, clientId, message) ==
  [c \in Clients |->
     IF c = clientId /\ isOpen(conns, c) THEN message ELSE frames[c]]

\* broadcast: the frame goes to every registered socket that is OPEN.
broadcast(conns, frames, message) ==
  [c \in Clients |-> IF isOpen(conns, c) THEN message ELSE frames[c]]

\* A broadcastExcept that does not leave out excludeClientId.
broadcastExcept_everyone(conns, frames, excludeClientId, message) ==
  broadcast(conns, frames, message)

\* broadcastExcept: as broadcast, without excludeClientId.
broadcastExcept(conns, frames, excludeClientId, message) ==
  [c \in Clients |->
     IF c # excludeClientId /\ isOpen(conns, c) THEN message ELSE frames[c]]

\* websocket.ts broadcastGameUpdate: the user record is attached only on the
\* connections bound to the updated user.
broadcastGameUpdate(conns, bound, frames, gameState, updatedUser) ==
  [c \in Clients |->
     IF isOpen(conns, c)
     THEN gameUpdate(gameState,
                     IF updatedUser # NoUserId /\ bound[c] = updatedUser
                     THEN updatedUser ELSE NoUserId)
     ELSE frames[c]]

\* websocket-server.ts broadcastGameUpdate: one frame, user: updatedUser,
\* broadcast to every open socket.
server_broadcastGameUpdate(conns, bound, frames, gameState, updatedUser) ==
  broadcast(conns, frames, gameUpdate(gameState, updatedUser))

\* A step that writes to no socket.
quiet == sent' = noFrames

(* ------------------------------------------------------------------ *)
(* Handler-local state                                                *)
(* ------------------------------------------------------------------ *)
IdleJoin ==
  [pc |-> "idle", id |-> NoUserId, team |-> NoTeam, tapCount |-> 0,
   isComeback |-> FALSE, isReturnVisit |-> FALSE, publishFailed |-> FALSE, reconnectCount |-> 0, read |-> NoUser]

IdleLeave == [pc |-> "idle", userId |-> NoUserId, read |-> NoUser]

IdleTap == [pc |-> "idle", userId |-> NoUserId, read |-> NoUser]

NoTapEvent == [id |-> 0, userId |-> NoUserId]

\* A message value that JSON.parse rejects stands in the log as an event of
\* this user id.
Unparsable == "unparsable"

IdleConsumer == [pc |-> "idle", tapEvent |-> NoTapEvent, user |-> NoUser]

Requests == {"r1", "r2"}

\* The handlers that have started and not yet finished.
inFlight ==
  Cardinality({c \in Clients : join[c].pc # "idle"})
  + Cardinality({c \in Clients : leave[c].pc # "idle"})
  + Cardinality({r \in Requests : tap[r].pc # "idle"})
  + (IF consumer.pc # "idle" THEN 1 ELSE 0)

\* The tap requests accepted so far: the events published and the requests
\* that have not published theirs yet.
tapsAccepted == nextEventId + Cardinality({r \in Requests : tap[r].pc # "idle"})

\* User ids are names the clients choose: a request may use "u2" only once
\* "u1" is known to the system (the runs that use the names the other way
\* round are the same runs up to renaming).
known(userId) ==
  \/ allUsers[userId] # NoUser
  \/ \E c \in Clients : join[c].pc # "idle" /\ join[c].id = userId
  \/ \E r \in Requests : tap[r].pc # "idle" /\ tap[r].userId = userId
  \/ \E p \in Partitions : \E i \in 1 .. Len(topic[p]) : topic[p][i].userId = userId
  \/ consumer.pc # "idle" /\ consumer.tapEvent.userId = userId

nameInOrder(userId) == userId = "u2" => known("u1")

\* Connection ids and request slots are fresh names: the next free one is
\* taken in a fixed order.
clientOrder == <<"c1", "c2">>

requestOrder == <<"r1", "r2">>

isFirstFree(order, free, x) ==
  \E i \in 1 .. Len(order) :
    /\ order[i] = x
    /\ x \in free
    /\ \A j \in 1 .. (i - 1) : order[j] \notin free

Init ==
  /\ gatewayImpl \in {"websocket", "websocket-server"}
  /\ users = [u \in Users |-> NoUser]
  /\ allUsers = [u \in Users |-> NoUser]
  /\ blueScore = 0
  /\ redScore = 0
  /\ totalTaps = 0
  /\ topic = [p \in Partitions |-> <<>>]
  /\ nextEventId = 0
  /\ clients = [c \in Clients |-> "new"]
  /\ clientToUserId = [c \in Clients |-> NoUserId]
  /\ clientPingTimes = [c \in Clients |-> FALSE]
  /\ sent = noFrames
  /\ initialState = [c \in Clients |-> FALSE]
  /\ join = [c \in Clients |-> IdleJoin]
  /\ leave = [c \in Clients |-> IdleLeave]
  /\ tap = [r \in Requests |-> IdleTap]
  /\ consumer = IdleConsumer
  /\ applied = <<>>
  /\ joins = [c \in Clients |-> 0]
  /\ comebacks = [u \in Users |-> 0]
  /\ sessionEnd = NoSessionEnd
  /\ kafka = NoKafka
  /\ updates = NoUpdates
  /\ disconnect = NoDisconnect
  /\ probe = NoProbe
  /\ unknownLog = NoUnknownLog
  /\ tapHistory = NoTapHistory
  /\ process = Serving
  /\ tapMetrics = NoTapMetrics
  /\ response = NoResponse
  /\ fanOut = NoFanOut

(* ------------------------------------------------------------------ *)
(* Connection accept (wss.on('connection'))                           *)
(* ------------------------------------------------------------------ *)
\* The socket is registered and sendInitialState is started.
connection(c) ==
  /\ isFirstFree(clientOrder, {x \in Clients : clients[x] = "new"}, c)
  /\ clients' = [clients EXCEPT ![c] = "open"]
  /\ initialState' = [initialState EXCEPT ![c] = TRUE]
  /\ UNCHANGED <<gatewayImpl, comebacks, auxVars, storeVars, topic, nextEventId, clientToUserId,
                 clientPingTimes, join, leave, tap, consumer, applied, joins>>
  /\ quiet

\* A sendInitialState that reads the game state and sends nothing.
sendInitialState_silent(c) ==
  /\ initialState[c]
  /\ initialState' = [initialState EXCEPT ![c] = FALSE]
  /\ sent' = noFrames
  /\ UNCHANGED <<gatewayImpl, comebacks, auxVars, storeVars, topic, nextEventId, clients,
                 clientToUserId, clientPingTimes, join, leave, tap, consumer,
                 applied, joins>>

\* sendInitialState after its await: the game state goes to the new client.
sendInitialState(c) ==
  /\ initialState[c]
  /\ initialState' = [initialState EXCEPT ![c] = FALSE]
  /\ sent' = sendToClient(clients, noFrames, c, gameUpdate(getGameState, NoUserId))
  /\ UNCHANGED <<gatewayImpl, comebacks, auxVars, storeVars, topic, nextEventId, clients,
                 clientToUserId, clientPingTimes, join, leave, tap, consumer,
                 applied, joins>>

(* ------------------------------------------------------------------ *)
(* websocket.ts: the latency probe                                    *)
(* ------------------------------------------------------------------ *)
probeFrame == <<gatewayImpl, comebacks, auxVars, storeVars, topic, nextEventId, clients,
                clientToUserId, initialState, join, leave, tap, consumer,
                applied, joins>>

\* The 10 s interval fires on an open socket: the ping time is recorded and
\* a ping frame is sent.
pingInterval(c) ==
  /\ gatewayImpl = "websocket"
  /\ clients[c] = "open"
  /\ ~clientPingTimes[c]
  /\ clientPingTimes' = [clientPingTimes EXCEPT ![c] = TRUE]
  /\ sent' = sendToClient(clients, noFrames, c, pingMessage)
  /\ UNCHANGED probeFrame

\* A message of type 'ping' arrives: a recorded ping time is consumed and
\* handleLatencyMeasurement runs (getUser, then a publish: it writes nothing
\* to the store); a pong frame is sent back.
handleLatencyMeasurement(c) ==
  /\ gatewayImpl = "websocket"
  /\ clients[c] = "open"
  /\ clientPingTimes[c]
  /\ clientPingTimes' = [clientPingTimes EXCEPT ![c] = FALSE]
  /\ sent' = sendToClient(clients, noFrames, c, pongMessage)
  /\ UNCHANGED probeFrame

(* ------------------------------------------------------------------ *)
(* websocket.ts: StandaloneWebSocketServer.handleUserJoin             *)
(* ------------------------------------------------------------------ *)
\* What a join step leaves alone besides the store, the gateway maps and join.
joinFrame == <<gatewayImpl, auxVars, topic, nextEventId, clients, clientPingTimes,
               initialState, leave, tap, consumer, applied>>

joinStepFrame == <<joinFrame, joins>>

\* const serverTapCount = existingUser?.tapCount || 0: the tapCount of the
\* join message is not consulted.
serverTapCount(existingUser, userData) == existingUser.tapCount

\* finalTeam before the Balancer is asked: the stored team, else the team
\* of the join message, else NoTeam (the Balancer decides).
finalTeam(existingUser, userData) ==
  IF existingUser # NoUser THEN existingUser.team ELSE userData.team

\* A user_join message arrives: getUser, then the synchronous part up to the
\* next await.  The one Redis connection of the process answers commands in
\* the order they were sent, so the getGameState that sendInitialState sent
\* when the socket was accepted has been answered before this getUser.
handleUserJoin(c, userData) ==
  /\ gatewayImpl = "websocket"
  /\ clients[c] = "open"
  /\ ~initialState[c]
  /\ join[c].pc = "idle"
  /\ nameInOrder(userData.id)
  /\ joins' = [joins EXCEPT ![c] = @ + 1]
  /\ inFlight < MaxInFlight
  /\ LET existingUser == getUser(userData.id)
         team == finalTeam(existingUser, userData)
         isComeback == existingUser # NoUser /\ existingUser.lastDisconnectTime # 0
     IN join' = [join EXCEPT ![c] =
          [pc |-> IF team = NoTeam THEN "balanceTeamAssignment"
                  ELSE IF isComeback THEN "incrementReconnectCount"
                  ELSE "trackVisit",
           id |-> userData.id,
           team |-> team,
           tapCount |-> serverTapCount(existingUser, userData),
           isComeback |-> isComeback, isReturnVisit |-> FALSE, publishFailed |-> FALSE,
           reconnectCount |-> existingUser.reconnectCount,
           read |-> NoUser]]
  /\ UNCHANGED <<storeVars, clientToUserId>>
  /\ quiet
  /\ UNCHANGED <<joinFrame, comebacks>>

\* await balanceTeamAssignment(): hgetall of the active hash.
join_balanceTeamAssignment(c) ==
  /\ gatewayImpl = "websocket"
  /\ join[c].pc = "balanceTeamAssignment"
  /\ \E team \in balanceTeamAssignment(users) :
       join' = [join EXCEPT ![c].team = team, ![c].pc = "trackVisit"]
  /\ UNCHANGED <<storeVars, clientToUserId>>
  /\ quiet
  /\ UNCHANGED <<joinStepFrame, comebacks>>

\* incrementReconnectCount: getUser.
join_incrementReconnectCount(c) ==
  /\ join[c].pc = "incrementReconnectCount"
  /\ LET user == getUser(join[c].id)
     IN join' = [join EXCEPT
          ![c].read = user,
          ![c].pc = IF user # NoUser THEN "incrementReconnectCount_hset"
                    ELSE "trackVisit",
          ![c].reconnectCount = IF user # NoUser THEN @ ELSE 0]
  /\ UNCHANGED <<storeVars, clientToUserId>>
  /\ quiet
  /\ UNCHANGED <<joinStepFrame, comebacks>>

\* incrementReconnectCount: the record read is written back with
\* reconnectCount + 1, which is also the value the join keeps.
join_incrementReconnectCount_hset(c) ==
  /\ join[c].pc = "incrementReconnectCount_hset"
  /\ LET user == [join[c].read EXCEPT !.reconnectCount = @ + 1]
     IN /\ hsetBoth(join[c].id, user)
        /\ join' = [join EXCEPT ![c].read = NoUser,
                                ![c].reconnectCount = user.reconnectCount,
                                ![c].pc = "trackVisit"]
  /\ UNCHANGED <<counterVars, clientToUserId>>
  /\ quiet
  /\ UNCHANGED <<joinStepFrame, comebacks>>

\* trackVisit: getUser (trackSessionStart before it touches session keys
\* only); isReturnVisit is whether the record read carries lastVisitTime.
join_trackVisit(c) ==
  /\ join[c].pc = "trackVisit"
  /\ LET user == getUser(join[c].id)
     IN join' = [join EXCEPT
          ![c].read = user,
          ![c].isReturnVisit = user # NoUser /\ user.lastVisitTime # 0,
          ![c].pc = IF user # NoUser THEN "trackVisit_hset"
                    ELSE "incrementActiveSessions"]
  /\ UNCHANGED <<storeVars, clientToUserId>>
  /\ quiet
  /\ UNCHANGED <<joinStepFrame, comebacks>>

\* trackVisit: the record read is written back with visitCount + 1 and
\* lastVisitTime set (streakLength is not part of the model).
join_trackVisit_hset(c) ==
  /\ join[c].pc = "trackVisit_hset"
  /\ hsetBoth(join[c].id, [join[c].read EXCEPT !.visitCount = @ + 1,
                                               !.lastVisitTime = 1])
  /\ join' = [join EXCEPT ![c].read = NoUser, ![c].pc = "incrementActiveSessions"]
  /\ UNCHANGED <<counterVars, clientToUserId>>
  /\ quiet
  /\ UNCHANGED <<joinStepFrame, comebacks>>

\* incrementActiveSessions: getUser.
join_incrementActiveSessions(c) ==
  /\ join[c].pc = "incrementActiveSessions"
  /\ LET user == getUser(join[c].id)
     IN join' = [join EXCEPT
          ![c].read = user,
          ![c].pc = IF user # NoUser THEN "incrementActiveSessions_hset"
                    ELSE "addUser"]
  /\ UNCHANGED <<storeVars, clientToUserId>>
  /\ quiet
  /\ UNCHANGED <<joinStepFrame, comebacks>>

\* incrementActiveSessions: the record read is written back with
\* activeSessions + 1.
join_incrementActiveSessions_hset(c) ==
  /\ join[c].pc = "incrementActiveSessions_hset"
  /\ hsetBoth(join[c].id, [join[c].read EXCEPT !.activeSessions = @ + 1])
  /\ join' = [join EXCEPT ![c].read = NoUser, ![c].pc = "addUser"]
  /\ UNCHANGED <<counterVars, clientToUserId>>
  /\ quiet
  /\ UNCHANGED <<joinStepFrame, comebacks>>

\* The eventType of the session event a join publishes.
joinEventType(isComeback) == IF isComeback THEN "comeback" ELSE "session_start"

\* publishSessionEvent for a join: one more comeback event for the player
\* when the event is a comeback.
publishSessionEvent(userId, eventType) ==
  comebacks' = [comebacks EXCEPT ![userId] =
                  IF eventType = "comeback" THEN @ + 1 ELSE @]

\* What becomes of an event handed to a publish function: it is sent, or
\* getProducer throws because initializeKafka has not completed, or
\* producer.send rejects.
PublishOutcomes == {"sent", "notInitialized", "sendFails"}

\* A join that gives up when a publish function throws.
afterPublishError_abort(j) == IdleJoin

\* catch (error) { console.error(...) } around each publish of the join:
\* the join goes on to its reply.
afterPublishError(j) == [j EXCEPT !.pc = "reply", !.publishFailed = TRUE]

\* await addUser(user), then this.clientToUserId.set(clientId, user.id),
\* then the session event of the join.
join_addUser(c) ==
  /\ gatewayImpl = "websocket"
  /\ join[c].pc = "addUser"
  /\ hsetBoth(join[c].id,
              JoinedUser(join[c].team, join[c].tapCount, join[c].reconnectCount))
  /\ clientToUserId' = [clientToUserId EXCEPT ![c] = join[c].id]
  /\ \E outcome \in PublishOutcomes :
       IF outcome = "sent"
       THEN /\ publishSessionEvent(join[c].id, joinEventType(join[c].isComeback))
            /\ join' = [join EXCEPT ![c].pc = "reply"]
       ELSE /\ UNCHANGED comebacks
            /\ join' = [join EXCEPT ![c] = afterPublishError(join[c])]
  /\ UNCHANGED <<counterVars>>
  /\ quiet
  /\ UNCHANGED joinStepFrame

\* The end of a join, shared by both gateways: getGameState, the requester
\* gets the state with its own record, all others the state alone.
join_reply(c) ==
  /\ join[c].pc = "reply"
  /\ LET gameState == getGameState
     IN sent' = broadcastExcept(clients,
                      sendToClient(clients, noFrames, c, gameUpdate(gameState, join[c].id)),
                      c, gameUpdate(gameState, NoUserId))
  /\ join' = [join EXCEPT ![c] = IdleJoin]
  /\ UNCHANGED <<storeVars, clientToUserId>>
  /\ UNCHANGED <<joinStepFrame, comebacks>>

(* ------------------------------------------------------------------ *)
(* websocket-server.ts: StandaloneWebSocketServer.handleUserJoin      *)
(* ------------------------------------------------------------------ *)
\* An assignedTeam that takes the team of the join message for a new player.
server_assignedTeam_declared(existingUser, userData) ==
  IF existingUser # NoUser THEN existingUser.team ELSE userData.team

\* assignedTeam before the Balancer is asked: existingUser?.team, else NoTeam;
\* the team of the join message is not consulted.
server_assignedTeam(existingUser, userData) ==
  IF existingUser # NoUser THEN existingUser.team ELSE NoTeam

\* A user_join message arrives: getUser, then the synchronous part up to the
\* next await (after the answer to the getGameState of sendInitialState, as
\* in websocket.ts).
server_handleUserJoin(c, userData) ==
  /\ gatewayImpl = "websocket-server"
  /\ clients[c] = "open"
  /\ ~initialState[c]
  /\ join[c].pc = "idle"
  /\ nameInOrder(userData.id)
  /\ joins' = [joins EXCEPT ![c] = @ + 1]
  /\ inFlight < MaxInFlight
  /\ LET existingUser == getUser(userData.id)
         team == server_assignedTeam(existingUser, userData)
     IN join' = [join EXCEPT ![c] =
          [pc |-> IF team = NoTeam THEN "balanceTeamAssignment" ELSE "addUser",
           id |-> userData.id,
           team |-> team,
           tapCount |-> existingUser.tapCount,
           isComeback |-> FALSE, isReturnVisit |-> FALSE, publishFailed |-> FALSE,
           reconnectCount |-> 0,
           read |-> NoUser]]
  /\ UNCHANGED <<storeVars, clientToUserId>>
  /\ quiet
  /\ UNCHANGED <<joinFrame, comebacks>>

\* await balanceTeamAssignment(): hgetall of the active hash.
server_balanceTeamAssignment(c) ==
  /\ gatewayImpl = "websocket-server"
  /\ join[c].pc = "balanceTeamAssignment"
  /\ \E team \in balanceTeamAssignment(users) :
       join' = [join EXCEPT ![c].team = team, ![c].pc = "addUser"]
  /\ UNCHANGED <<storeVars, clientToUserId>>
  /\ quiet
  /\ UNCHANGED <<joinStepFrame, comebacks>>

\* await addUser(user), then this.clientToUserId.set(clientId, user.id).
server_addUser(c) ==
  /\ gatewayImpl = "websocket-server"
  /\ join[c].pc = "addUser"
  /\ hsetBoth(join[c].id, JoinedUserSimple(join[c].team, join[c].tapCount))
  /\ clientToUserId' = [clientToUserId EXCEPT ![c] = join[c].id]
  /\ join' = [join EXCEPT ![c].pc = "reply"]
  /\ UNCHANGED <<counterVars>>
  /\ quiet
  /\ UNCHANGED <<joinStepFrame, comebacks>>

(* ------------------------------------------------------------------ *)
(* handleClientDisconnect / handleUserLeave (both gateways)           *)
(* ------------------------------------------------------------------ *)
leaveFrame == <<gatewayImpl, comebacks, auxVars, topic, nextEventId, join, tap, consumer,
                applied, joins>>

leaveStepFrame == <<leaveFrame, initialState>>

\* 'close' (or 'error') is emitted: the socket leaves the registry and
\* handleUserLeave looks up the bound user.  websocket.ts goes on to getUser,
\* websocket-server.ts straight to removeUser.  A sendInitialState still
\* pending for the connection will find no client and send nothing.
handleClientDisconnect(c) ==
  /\ clients[c] = "open"
  /\ leave[c].pc = "idle"
  /\ inFlight < MaxInFlight
  /\ clients' = [clients EXCEPT ![c] = "closed"]
  /\ initialState' = [initialState EXCEPT ![c] = FALSE]
  /\ leave' = [leave EXCEPT ![c] =
       IF clientToUserId[c] = NoUserId THEN IdleLeave
       ELSE [pc |-> IF gatewayImpl = "websocket" THEN "getUser" ELSE "removeUser",
             userId |-> clientToUserId[c], read |-> NoUser]]
  /\ UNCHANGED <<storeVars, clientToUserId, clientPingTimes>>
  /\ quiet
  /\ UNCHANGED leaveFrame

\* websocket.ts handleUserLeave: const user = await getUser(userId).
leave_getUser(c) ==
  /\ leave[c].pc = "getUser"
  /\ leave' = [leave EXCEPT ![c].pc =
       IF getUser(leave[c].userId) # NoUser THEN "decrementActiveSessions"
       ELSE "removeUser"]
  /\ UNCHANGED <<storeVars, clients, clientToUserId, clientPingTimes>>
  /\ quiet
  /\ UNCHANGED leaveStepFrame

\* decrementActiveSessions: getUser; it writes only if activeSessions is set.
leave_decrementActiveSessions(c) ==
  /\ leave[c].pc = "decrementActiveSessions"
  /\ LET user == getUser(leave[c].userId)
         writes == user # NoUser /\ user.activeSessions # 0
     IN leave' = [leave EXCEPT
          ![c].read = IF writes THEN user ELSE NoUser,
          ![c].pc = IF writes THEN "decrementActiveSessions_hset"
                    ELSE "updateUserDisconnectTime"]
  /\ UNCHANGED <<storeVars, clients, clientToUserId, clientPingTimes>>
  /\ quiet
  /\ UNCHANGED leaveStepFrame

\* decrementActiveSessions: the record read is written back with
\* Math.max(0, activeSessions - 1).
leave_decrementActiveSessions_hset(c) ==
  /\ leave[c].pc = "decrementActiveSessions_hset"
  /\ hsetBoth(leave[c].userId,
              [leave[c].read EXCEPT !.activeSessions = IF @ > 0 THEN @ - 1 ELSE 0])
  /\ leave' = [leave EXCEPT ![c].read = NoUser, ![c].pc = "updateUserDisconnectTime"]
  /\ UNCHANGED <<counterVars, clients, clientToUserId, clientPingTimes>>
  /\ quiet
  /\ UNCHANGED leaveStepFrame

\* updateUserDisconnectTime: getUser.
leave_updateUserDisconnectTime(c) ==
  /\ leave[c].pc = "updateUserDisconnectTime"
  /\ LET user == getUser(leave[c].userId)
     IN leave' = [leave EXCEPT
          ![c].read = user,
          ![c].pc = IF user # NoUser THEN "updateUserDisconnectTime_hset"
                    ELSE "removeUser"]
  /\ UNCHANGED <<storeVars, clients, clientToUserId, clientPingTimes>>
  /\ quiet
  /\ UNCHANGED leaveStepFrame

\* updateUserDisconnectTime: the record read is written back with
\* lastDisconnectTime set.
leave_updateUserDisconnectTime_hset(c) ==
  /\ leave[c].pc = "updateUserDisconnectTime_hset"
  /\ hsetBoth(leave[c].userId, [leave[c].read EXCEPT !.lastDisconnectTime = 1])
  /\ leave' = [leave EXCEPT ![c].read = NoUser, ![c].pc = "removeUser"]
  /\ UNCHANGED <<counterVars, clients, clientToUserId, clientPingTimes>>
  /\ quiet
  /\ UNCHANGED leaveStepFrame

\* await removeUser(userId); the binding (and in websocket.ts the ping time)
\* of the connection is dropped and user_left is broadcast.
leave_removeUser(c) ==
  /\ leave[c].pc = "removeUser"
  /\ removeUser(leave[c].userId)
  /\ clientToUserId' = [clientToUserId EXCEPT ![c] = NoUserId]
  /\ clientPingTimes' = [clientPingTimes EXCEPT ![c] = FALSE]
  /\ sent' = broadcast(clients, noFrames, userLeft(leave[c].userId))
  /\ leave' = [leave EXCEPT ![c].pc = "broadcastGameUpdate"]
  /\ UNCHANGED clients
  /\ UNCHANGED leaveStepFrame

\* A handleUserLeave that ends after user_left, without the game state.
leave_broadcastGameUpdate_skipped(c) ==
  /\ leave[c].pc = "broadcastGameUpdate"
  /\ sent' = noFrames
  /\ leave' = [leave EXCEPT ![c] = IdleLeave]
  /\ UNCHANGED <<storeVars, clients, clientToUserId, clientPingTimes>>
  /\ UNCHANGED leaveStepFrame

\* await this.broadcastGameUpdate() without a user.
leave_broadcastGameUpdate(c) ==
  /\ leave[c].pc = "broadcastGameUpdate"
  /\ sent' = broadcast(clients, noFrames, gameUpdate(getGameState, NoUserId))
  /\ leave' = [leave EXCEPT ![c] = IdleLeave]
  /\ UNCHANGED <<storeVars, clients, clientToUserId, clientPingTimes>>
  /\ UNCHANGED leaveStepFrame

(* ------------------------------------------------------------------ *)
(* app/api/tap/route.ts: POST                                         *)
(* ------------------------------------------------------------------ *)
tapFrame == <<gatewayImpl, comebacks, auxVars, clients, clientToUserId, clientPingTimes,
              initialState, join, leave, consumer, applied, joins>>

\* A tap is submitted: getUser (getSessionInfo and trackTapTimestamp touch
\* session and history keys only).  trackFirstTap is called for a user with
\* a session start and no first tap yet.
POST(r, body) ==
  /\ isFirstFree(requestOrder, {x \in Requests : tap[x].pc = "idle"}, r)
  /\ nameInOrder(body.userId)
  /\ inFlight < MaxInFlight
  /\ LET user == getUser(body.userId)
     IN tap' = [tap EXCEPT ![r] =
          [pc |-> IF user # NoUser /\ user.firstTapTime = 0 /\ user.sessionStartTime # 0
                  THEN "trackFirstTap" ELSE "updatePreviousTapCount",
           userId |-> body.userId, read |-> NoUser]]
  /\ UNCHANGED <<storeVars, topic, nextEventId>>
  /\ UNCHANGED tapFrame
  /\ quiet

\* trackFirstTap: getUser; it writes only if the user has no first tap yet.
tap_trackFirstTap(r) ==
  /\ tap[r].pc = "trackFirstTap"
  /\ LET user == getUser(tap[r].userId)
         writes == user # NoUser /\ user.firstTapTime = 0
     IN tap' = [tap EXCEPT
          ![r].read = IF writes THEN user ELSE NoUser,
          ![r].pc = IF writes THEN "trackFirstTap_hset" ELSE "updatePreviousTapCount"]
  /\ UNCHANGED <<storeVars, topic, nextEventId>>
  /\ UNCHANGED tapFrame
  /\ quiet

\* trackFirstTap: the record read is written back with firstTapTime set.
tap_trackFirstTap_hset(r) ==
  /\ tap[r].pc = "trackFirstTap_hset"
  /\ hsetBoth(tap[r].userId, [tap[r].read EXCEPT !.firstTapTime = 1])
  /\ tap' = [tap EXCEPT ![r].read = NoUser, ![r].pc = "updatePreviousTapCount"]
  /\ UNCHANGED <<counterVars, topic, nextEventId>>
  /\ UNCHANGED tapFrame
  /\ quiet

\* updatePreviousTapCount: getUser.
tap_updatePreviousTapCount(r) ==
  /\ tap[r].pc = "updatePreviousTapCount"
  /\ LET user == getUser(tap[r].userId)
     IN tap' = [tap EXCEPT
          ![r].read = user,
          ![r].pc = IF user # NoUser THEN "updatePreviousTapCount_hset" ELSE "send"]
  /\ UNCHANGED <<storeVars, topic, nextEventId>>
  /\ UNCHANGED tapFrame
  /\ quiet

\* updatePreviousTapCount: the record read is written back with
\* previousTapCount set (a field that is not part of the model).
tap_updatePreviousTapCount_hset(r) ==
  /\ tap[r].pc = "updatePreviousTapCount_hset"
  /\ hsetBoth(tap[r].userId, tap[r].read)
  /\ tap' = [tap EXCEPT ![r].read = NoUser, ![r].pc = "send"]
  /\ UNCHANGED <<counterVars, topic, nextEventId>>
  /\ UNCHANGED tapFrame
  /\ quiet

\* producer.send: the tap event is appended to the partition of its key.
tap_send(r) ==
  /\ tap[r].pc = "send"
  /\ LET tapEvent == [id |-> nextEventId + 1, userId |-> tap[r].userId]
     IN topic' = [topic EXCEPT ![partitionOf(tapEvent)] = Append(@, tapEvent)]
  /\ nextEventId' = nextEventId + 1
  /\ tap' = [tap EXCEPT ![r] = IdleTap]
  /\ UNCHANGED <<storeVars>>
  /\ UNCHANGED tapFrame
  /\ quiet

(* ------------------------------------------------------------------ *)
(* kafka-consumer.ts: eachMessage / processTapEvent                   *)
(* redis.ts: incrementUserTaps                                        *)
(* ------------------------------------------------------------------ *)
consumerFrame == <<gatewayImpl, comebacks, auxVars, nextEventId, clients, clientToUserId,
                   clientPingTimes, initialState, join, leave, tap, joins>>

\* A consumer that lets the parse error out of eachMessage: the message is
\* delivered again.
afterParseError_retry(log) == log

\* JSON.parse throws inside the try block of eachMessage: the error is
\* logged, eachMessage returns and the partition moves to the next message.
afterParseError(log) == Tail(log)

\* The next message of a partition is delivered.  A value that cannot be
\* parsed is skipped; otherwise incrementUserTaps reads the user and, if
\* there is none, the event is logged and dropped.
eachMessage(partition) ==
  /\ consumer.pc = "idle"
  /\ topic[partition] # <<>>
  /\ inFlight < MaxInFlight
  /\ LET tapEvent == Head(topic[partition])
         user == getUser(tapEvent.userId)
     IN IF tapEvent.userId = Unparsable
        THEN /\ topic' = [topic EXCEPT ![partition] = afterParseError(@)]
             /\ consumer' = IdleConsumer
        ELSE /\ topic' = [topic EXCEPT ![partition] = Tail(@)]
             /\ consumer' =
                  IF user = NoUser THEN IdleConsumer
                  ELSE [pc |-> "hset", tapEvent |-> tapEvent,
                        user |-> [user EXCEPT !.tapCount = @ + 1]]
  /\ UNCHANGED <<storeVars, applied>>
  /\ quiet
  /\ UNCHANGED consumerFrame

\* incrementUserTaps: the incremented record is written to both hashes.
incrementUserTaps_hset ==
  /\ consumer.pc = "hset"
  /\ hsetBoth(consumer.tapEvent.userId, consumer.user)
  /\ consumer' = [consumer EXCEPT !.pc = "incr_team"]
  /\ UNCHANGED <<counterVars, topic, applied>>
  /\ quiet
  /\ UNCHANGED consumerFrame

\* incrementUserTaps: INCR of the score key of the user's team.
incrementUserTaps_incrTeam ==
  /\ consumer.pc = "incr_team"
  /\ IF consumer.user.team = "blue"
     THEN blueScore' = blueScore + 1 /\ UNCHANGED redScore
     ELSE redScore' = redScore + 1 /\ UNCHANGED blueScore
  /\ consumer' = [consumer EXCEPT !.pc = "incr_total"]
  /\ UNCHANGED <<users, allUsers, totalTaps, topic, applied>>
  /\ quiet
  /\ UNCHANGED consumerFrame

\* incrementUserTaps: INCR of the total-taps key; the event is now applied.
incrementUserTaps_incrTotal ==
  /\ consumer.pc = "incr_total"
  /\ totalTaps' = totalTaps + 1
  /\ applied' = Append(applied, consumer.tapEvent)
  /\ consumer' = [consumer EXCEPT !.pc = "broadcastGameUpdate"]
  /\ UNCHANGED <<users, allUsers, blueScore, redScore, topic>>
  /\ quiet
  /\ UNCHANGED consumerFrame

\* The store refuses a command of incrementUserTaps (here the hset): the
\* error is caught and logged by processTapEvent, which returns normally,
\* and eachMessage returns after it.
incrementUserTaps_throws ==
  /\ consumer.pc = "hset"
  /\ consumer' = IdleConsumer
  /\ UNCHANGED <<storeVars, topic, applied>>
  /\ quiet
  /\ UNCHANGED consumerFrame

\* Some producer appends a value that is not a JSON document to a partition
\* of the topic.
produceUnparsable(partition) ==
  /\ topic' = [topic EXCEPT ![partition] =
                 Append(@, [id |-> nextEventId + 1, userId |-> Unparsable])]
  /\ nextEventId' = nextEventId + 1
  /\ UNCHANGED <<storeVars, tap>>
  /\ UNCHANGED tapFrame
  /\ quiet

\* processTapEvent: standaloneWebSocketServer.broadcastGameUpdate(updatedUser).
processTapEvent_broadcastGameUpdate ==
  /\ consumer.pc = "broadcastGameUpdate"
  /\ sent' =
       IF gatewayImpl = "websocket"
       THEN broadcastGameUpdate(clients, clientToUserId, noFrames, getGameState,
                                consumer.tapEvent.userId)
       ELSE server_broadcastGameUpdate(clients, clientToUserId, noFrames,
                                       getGameState, consumer.tapEvent.userId)
  /\ consumer' = IdleConsumer
  /\ UNCHANGED <<storeVars, topic, applied>>
  /\ UNCHANGED consumerFrame

(* ------------------------------------------------------------------ *)
(* Specification                                                      *)
(* ------------------------------------------------------------------ *)
UserData == [id : Users, team : Teams \cup {NoTeam}, tapCount : {0, 1}]

TapBody == [userId : Users]

Next ==
  \/ \E c \in Clients : connection(c)
  \/ \E c \in Clients : sendInitialState(c)
  \/ \E c \in Clients, userData \in UserData :
       joins[c] < MaxJoins /\ handleUserJoin(c, userData)
  \/ \E c \in Clients : join_balanceTeamAssignment(c)
  \/ \E c \in Clients : join_incrementReconnectCount(c)
  \/ \E c \in Clients : join_incrementReconnectCount_hset(c)
  \/ \E c \in Clients : join_trackVisit(c)
  \/ \E c \in Clients : join_trackVisit_hset(c)
  \/ \E c \in Clients : join_incrementActiveSessions(c)
  \/ \E c \in Clients : join_incrementActiveSessions_hset(c)
  \/ \E c \in Clients : join_addUser(c)
  \/ \E c \in Clients : join_reply(c)
  \/ \E c \in Clients, userData \in UserData :
       joins[c] < MaxJoins /\ server_handleUserJoin(c, userData)
  \/ \E c \in Clients : server_balanceTeamAssignment(c)
  \/ \E c \in Clients : server_addUser(c)
  \/ \E c \in Clients : handleClientDisconnect(c)
  \/ \E c \in Clients : leave_getUser(c)
  \/ \E c \in Clients : leave_decrementActiveSessions(c)
  \/ \E c \in Clients : leave_decrementActiveSessions_hset(c)
  \/ \E c \in Clients : leave_updateUserDisconnectTime(c)
  \/ \E c \in Clients : leave_updateUserDisconnectTime_hset(c)
  \/ \E c \in Clients : leave_removeUser(c)
  \/ \E c \in Clients : leave_broadcastGameUpdate(c)
  \/ \E r \in Requests, body \in TapBody : tapsAccepted < MaxTaps /\ POST(r, body)
  \/ \E r \in Requests : tap_trackFirstTap(r)
  \/ \E r \in Requests : tap_trackFirstTap_hset(r)
  \/ \E r \in Requests : tap_updatePreviousTapCount(r)
  \/ \E r \in Requests : tap_updatePreviousTapCount_hset(r)
  \/ \E r \in Requests : tap_send(r)
  \/ \E partition \in Partitions : eachMessage(partition)
  \/ incrementUserTaps_hset
  \/ incrementUserTaps_incrTeam
  \/ incrementUserTaps_incrTotal
  \/ processTapEvent_broadcastGameUpdate

Spec == Init /\ [][Next]_vars

(* ------------------------------------------------------------------ *)
(* The tap pipeline on its own: both players have joined, each on its *)
(* own connection, and only the tap route, the consumer and the       *)
(* latency probe run.                                                 *)
(* ------------------------------------------------------------------ *)
joinedRecord(team) ==
  IF gatewayImpl = "websocket" THEN JoinedUser(team, 0, 0)
  ELSE JoinedUserSimple(team, 0)

InitPipeline ==
  /\ gatewayImpl \in {"websocket", "websocket-server"}
  /\ \E team \in Teams :
       /\ users = [u \in Users |->
                    joinedRecord(IF u = "u1" THEN "blue" ELSE team)]
       /\ allUsers = users
  /\ blueScore = 0
  /\ redScore = 0
  /\ totalTaps = 0
  /\ topic = [p \in Partitions |-> <<>>]
  /\ nextEventId = 0
  /\ clients = [c \in Clients |-> "open"]
  /\ clientToUserId = [c \in Clients |-> IF c = "c1" THEN "u1" ELSE "u2"]
  /\ clientPingTimes = [c \in Clients |-> FALSE]
  /\ sent = noFrames
  /\ initialState = [c \in Clients |-> FALSE]
  /\ join = [c \in Clients |-> IdleJoin]
  /\ leave = [c \in Clients |-> IdleLeave]
  /\ tap = [r \in Requests |-> IdleTap]
  /\ consumer = IdleConsumer
  /\ applied = <<>>
  /\ joins = [c \in Clients |-> MaxJoins]
  /\ comebacks = [u \in Users |-> 0]
  /\ sessionEnd = NoSessionEnd
  /\ kafka = NoKafka
  /\ updates = NoUpdates
  /\ disconnect = NoDisconnect
  /\ probe = NoProbe
  /\ unknownLog = NoUnknownLog
  /\ tapHistory = NoTapHistory
  /\ process = Serving
  /\ tapMetrics = NoTapMetrics
  /\ response = NoResponse
  /\ fanOut = NoFanOut

NextPipeline ==
  \/ \E c \in Clients : pingInterval(c)
  \/ \E c \in Clients : handleLatencyMeasurement(c)
  \/ \E r \in Requests, body \in TapBody :
       tapsAccepted < MaxPipelineTaps /\ POST(r, body)
  \/ \E r \in Requests : tap_trackFirstTap(r)
  \/ \E r \in Requests : tap_trackFirstTap_hset(r)
  \/ \E r \in Requests : tap_updatePreviousTapCount(r)
  \/ \E r \in Requests : tap_updatePreviousTapCount_hset(r)
  \/ \E r \in Requests : tap_send(r)
  \/ \E partition \in Partitions :
       tapsAccepted < MaxPipelineTaps /\ produceUnparsable(partition)
  \/ \E partition \in Partitions : eachMessage(partition)
  \/ incrementUserTaps_hset
  \/ incrementUserTaps_throws
  \/ incrementUserTaps_incrTeam
  \/ incrementUserTaps_incrTotal
  \/ processTapEvent_broadcastGameUpdate

SpecPipeline == InitPipeline /\ [][NextPipeline]_vars

(* ------------------------------------------------------------------ *)
(* Properties                                                         *)
(* ------------------------------------------------------------------ *)
RECURSIVE sumTapCount(_, _)
sumTapCount(records, S) ==
  IF S = {} THEN 0
  ELSE LET u == CHOOSE x \in S : TRUE
       IN records[u].tapCount + sumTapCount(records, S \ {u})

\* The taps of the all-time players of a team.
teamTaps(team) ==
  sumTapCount(allUsers, {u \in Users : allUsers[u].team = team})

\* The tap events of a player that have been applied.
appliedTo(p) == Cardinality({i \in 1 .. Len(applied) : applied[i].userId = p})

\* No application of a tap event is under way.
consumerAtRest == consumer.pc \in {"idle", "broadcastGameUpdate"}

\* C1: in every reachable state each team's score counter equals the sum of
\* tapCount over the all-time players of that team.
C1_ScoreEqualsTeamTaps ==
  /\ blueScore = teamTaps("blue")
  /\ redScore = teamTaps("red")

\* C2: when the consumer has applied n tap events of a player, one after
\* the other, the player's tapCount is n higher than before the first (a
\* record is created with tapCount 0, so it is n).
C2_TapCountCountsApplied ==
  consumerAtRest =>
    \A p \in Users : allUsers[p] # NoUser => allUsers[p].tapCount = appliedTo(p)

\* C3: the stored tapCount of a player changes only in the step in which
\* the consumer writes the incremented record of that player; no step of a
\* join, a disconnect, a latency probe or a tap submission changes it.
C3_OnlyConsumerChangesTapCount ==
  [][\A p \in Users :
       allUsers'[p].tapCount # allUsers[p].tapCount =>
         /\ consumer.pc = "hset"
         /\ consumer.tapEvent.userId = p
         /\ consumer'.pc = "incr_team"]_vars

\* C4: a step of a join or of a disconnect leaves the blue, red and total
\* counters unchanged.
C4_JoinLeaveKeepCounters ==
  [][(\E c \in Clients : join'[c] # join[c] \/ leave'[c] # leave[c]) =>
       UNCHANGED counterVars]_vars

\* A player with taps has just been removed from the active view on
\* disconnect, and its connection had joined before.
C4_Witness ==
  \E c \in Clients :
    /\ leave[c].pc = "broadcastGameUpdate"
    /\ joins[c] > 0
    /\ allUsers[leave[c].userId].tapCount > 0
    /\ totalTaps > 0

\* C5: once a player's record exists its team never changes.
C5_TeamNeverChanges ==
  [][\A p \in Users :
       allUsers[p] # NoUser => allUsers'[p].team = allUsers[p].team]_vars

\* The active players of a team.
activeOn(team) == Cardinality({u \in Users : users[u].team = team})

\* The teams with the fewest active players.
fewest ==
  IF activeOn("blue") < activeOn("red") THEN {"blue"}
  ELSE IF activeOn("red") < activeOn("blue") THEN {"red"}
  ELSE Teams

\* C6: the Balancer returns the team with strictly fewer active players when
\* the counts differ, and can return either team only when they are equal.
C6_BalancerPicksSmallerTeam ==
  /\ activeOn("blue") < activeOn("red") => balanceTeamAssignment(users) = {"blue"}
  /\ activeOn("red") < activeOn("blue") => balanceTeamAssignment(users) = {"red"}
  /\ activeOn("blue") = activeOn("red") <=> balanceTeamAssignment(users) = Teams

\* A join is about to ask the Balancer while the teams are of unequal size.
C6_Witness ==
  \E c \in Clients :
    /\ join[c].pc = "balanceTeamAssignment"
    /\ activeOn("blue") # activeOn("red")

\* A join of connection c settles the team of a player id that has no
\* stored record.
settlesNewTeam(c) ==
  /\ join[c].team = NoTeam
  /\ join'[c].team # NoTeam
  /\ getUser(join'[c].id) = NoUser

\* A record is created only by the addUser of a join, with the join's team.
createdByJoin ==
  \A p \in Users :
    allUsers[p] = NoUser /\ allUsers'[p] # NoUser =>
      \E c \in Clients :
        /\ join[c].pc = "addUser"
        /\ join[c].id = p
        /\ allUsers'[p].team = join[c].team

C8_AllTimeForever ==
  [][\A p \in Users : allUsers[p] # NoUser => allUsers'[p] # NoUser]_vars

\* A player has left: it is out of the active view and still in the
\* all-time view.
C8_Witness ==
  \E c \in Clients :
    /\ leave[c].pc = "broadcastGameUpdate"
    /\ users[leave[c].userId] = NoUser
    /\ allUsers[leave[c].userId] # NoUser

\* C9: the tap events of one player are applied in the order in which they
\* were published (event ids count the publications).
C9_SamePlayerInPublishOrder ==
  \A i, j \in 1 .. Len(applied) :
    i < j /\ applied[i].userId = applied[j].userId =>
      applied[i].id < applied[j].id

\* Two events of one player have been applied, and two events of different
\* players have been applied against their publication order.
C9_Witness ==
  /\ \E i, j \in 1 .. Len(applied) :
       i < j /\ applied[i].userId = applied[j].userId
  /\ \E i, j \in 1 .. Len(applied) :
       i < j /\ applied[i].userId # applied[j].userId /\ applied[i].id > applied[j].id

\* C10: when the consumer has applied a tap of player P, its broadcast sends
\* every open connection a game_update with the current game state, and the
\* frame carries P's record only on the connections bound to P.
C10_TapBroadcastUserOnlyToOwner ==
  [][consumer.pc = "broadcastGameUpdate" /\ consumer'.pc = "idle" =>
       \A c \in Clients :
         clients[c] = "open" =>
           /\ sent'[c].type = "game_update"
           /\ sent'[c].gameState = getGameState
           /\ sent'[c].user # NoUserId => clientToUserId[c] = consumer.tapEvent.userId]_vars

\* C11: the step that ends a join sends the requesting connection, if it
\* is open, a game_update with the game state and the joined player's
\* record, and every other open connection a game_update with the game
\* state and no record; the requester gets no record-less copy and a
\* connection that is not open gets nothing.
C11_JoinReplyAndBroadcast ==
  [][\A c \in Clients :
       join[c].pc = "reply" /\ join'[c].pc = "idle" =>
         \A d \in Clients :
           sent'[d] =
             IF clients[d] # "open" THEN NoMessage
             ELSE gameUpdate(getGameState, IF d = c THEN join[c].id ELSE NoUserId)]_vars

\* A join has just ended while two connections were open and no tap had
\* been applied: the requester holds the frame with its record, the other
\* connection the frame without one.
C11_Witness ==
  /\ applied = <<>>
  /\ consumer.pc = "idle"
  /\ \E c, d \in Clients :
       /\ c # d
       /\ join[c].pc = "idle" /\ joins[c] > 0
       /\ sent[c] = gameUpdate(getGameState, clientToUserId[c])
       /\ clientToUserId[c] # NoUserId
       /\ sent[d] = gameUpdate(getGameState, NoUserId)

(* ------------------------------------------------------------------ *)
(* Progress: an await on the store or on the broker is answered, so   *)
(* a handler that has started goes on to its next step.               *)
(* ------------------------------------------------------------------ *)
leaveStep(c) ==
  \/ leave_getUser(c)
  \/ leave_decrementActiveSessions(c)
  \/ leave_decrementActiveSessions_hset(c)
  \/ leave_updateUserDisconnectTime(c)
  \/ leave_updateUserDisconnectTime_hset(c)
  \/ leave_removeUser(c)
  \/ leave_broadcastGameUpdate(c)

tapStep(r) ==
  \/ tap_trackFirstTap(r)
  \/ tap_trackFirstTap_hset(r)
  \/ tap_updatePreviousTapCount(r)
  \/ tap_updatePreviousTapCount_hset(r)
  \/ tap_send(r)

consumerStep ==
  \/ incrementUserTaps_hset
  \/ incrementUserTaps_incrTeam
  \/ incrementUserTaps_incrTotal
  \/ processTapEvent_broadcastGameUpdate

\* The tap pipeline with progress: requests and the consumer go on, and a
\* message waiting in a partition is delivered.
FairPipeline ==
  /\ SpecPipeline
  /\ \A r \in Requests : WF_vars(tapStep(r))
  /\ WF_vars(consumerStep)
  /\ \A partition \in Partitions : WF_vars(eachMessage(partition))

FairSpec ==
  /\ Spec
  /\ \A c \in Clients : WF_vars(sendInitialState(c))
  /\ \A c \in Clients : WF_vars(leaveStep(c))

C13_AbsentUntilNextJoin ==
  [][\A p \in Users :
       /\ allUsers[p] # NoUser => allUsers'[p] # NoUser
       /\ (allUsers[p] # NoUser /\ users[p] = NoUser /\ users'[p] # NoUser) =>
            \E c \in Clients : join[c].id = p /\ join'[c] # join[c]]_vars

\* The frames a broadcast of message writes: one to every open connection.
toEveryOpen(message) ==
  [d \in Clients |-> IF clients[d] = "open" THEN message ELSE NoMessage]

boundPlayers ==
  {clientToUserId[c] : c \in {d \in Clients : clients[d] = "open"}} \ {NoUserId}

\* C15: a player bound to an open connection is in the active view and is
\* counted in the active-player count of the game state.
C15_BoundPlayersAreActive ==
  /\ \A p \in boundPlayers : users[p] # NoUser
  /\ getGameState.activeUsers >= Cardinality(boundPlayers)

\* Message number n is waiting in the topic.
inTopic(n) ==
  \E q \in Partitions : \E i \in 1 .. Len(topic[q]) : topic[q][i].id = n

\* Tap event number n has been applied.
isApplied(n) == \E i \in 1 .. Len(applied) : applied[i].id = n

\* C16: when the consumer is done with a tap event (the event has left the
\* topic and the consumer is idle), the player of the event has a record
\* and the tap has been applied, also if the player had no record when the
\* event arrived.
C16_UnknownPlayerTapCounted ==
  consumer.pc = "idle" =>
    \A n \in 1 .. nextEventId : inTopic(n) \/ isApplied(n)

C18_ConsumedOnlyIfApplied ==
  [][consumer.pc # "idle" /\ consumer'.pc = "idle" =>
       \E i \in 1 .. Len(applied) : applied[i] = consumer.tapEvent]_vars

(* ------------------------------------------------------------------ *)
(* websocket.ts: handleUserLeave, the session event of a disconnect   *)
(* ------------------------------------------------------------------ *)
\* timeSinceLastTap < 5000 (milliseconds).
RageQuitWindow == 5000

\* sessionDuration > 30 * 60 * 1000 (milliseconds).
MarathonDuration == 1800000

\* const disconnectTime = Date.now(): the instant the samples are taken around.
DisconnectTime == 2000000

\* user.lastTapTime as the record read at the disconnect may carry it
\* (0: the field is absent).
LastTapTimes ==
  {0, DisconnectTime - RageQuitWindow - 1, DisconnectTime - RageQuitWindow,
   DisconnectTime - RageQuitWindow + 1, DisconnectTime - 2000, DisconnectTime}

\* user.sessionStartTime (0: the field is absent).
SessionStartTimes ==
  {0, DisconnectTime - MarathonDuration - 1, DisconnectTime - MarathonDuration,
   DisconnectTime - 1000}

Scores == {0, 50, 100}

TapCounts == 0 .. 2

\* The fields of the record handleUserLeave reads that decide the event type.
SessionUsers ==
  [team : Teams, tapCount : TapCounts, lastTapTime : LastTapTimes,
   sessionStartTime : SessionStartTimes]

SessionGameStates == [blueScore : Scores, redScore : Scores]

\* const wasLosing = userTeamScore < opponentScore.
wasLosing(user, gameState) ==
  LET userTeamScore == IF user.team = "blue" THEN gameState.blueScore
                       ELSE gameState.redScore
      opponentScore == IF user.team = "blue" THEN gameState.redScore
                       ELSE gameState.blueScore
  IN userTeamScore < opponentScore

\* const timeSinceLastTap = disconnectTime - (user.lastTapTime || 0).
timeSinceLastTap(user, disconnectTime) == disconnectTime - user.lastTapTime

\* A rage-quit test that does not ask whether the player has tapped.
isRageQuit_anyTapCount(user, gameState, disconnectTime) ==
  /\ wasLosing(user, gameState)
  /\ timeSinceLastTap(user, disconnectTime) < RageQuitWindow

\* const isRageQuit = wasLosing && timeSinceLastTap < 5000 && user.tapCount > 0.
isRageQuit(user, gameState, disconnectTime) ==
  /\ wasLosing(user, gameState)
  /\ timeSinceLastTap(user, disconnectTime) < RageQuitWindow
  /\ user.tapCount > 0

\* sessionDuration: disconnectTime - sessionStartTime, or 0 for undefined
\* (both are falsy where isMarathon tests them).
sessionDuration(user, disconnectTime) ==
  IF user.sessionStartTime # 0 THEN disconnectTime - user.sessionStartTime ELSE 0

\* const isMarathon = sessionDuration && sessionDuration > 30 * 60 * 1000.
isMarathon(user, disconnectTime) ==
  /\ sessionDuration(user, disconnectTime) # 0
  /\ sessionDuration(user, disconnectTime) > MarathonDuration

\* eventType: isRageQuit ? 'rage_quit' : isMarathon ? 'marathon' : 'session_end'.
sessionEndEventType(user, gameState, disconnectTime) ==
  IF isRageQuit(user, gameState, disconnectTime) THEN "rage_quit"
  ELSE IF isMarathon(user, disconnectTime) THEN "marathon"
  ELSE "session_end"

\* The session event of the disconnect is built and published.
leave_publishSessionEvent ==
  /\ sessionEnd.eventType = "pending"
  /\ sessionEnd' = [sessionEnd EXCEPT !.eventType =
                      sessionEndEventType(sessionEnd.user, sessionEnd.gameState,
                                          sessionEnd.disconnectTime)]
  /\ UNCHANGED gameVars
  /\ auxUnchangedExcept("sessionEnd")

\* A joined connection has closed: the record and the game state the handler
\* read, and the time of the disconnect.
InitSessionEnd ==
  /\ \E user \in SessionUsers, gameState \in SessionGameStates :
       sessionEnd = [eventType |-> "pending", user |-> user,
                     gameState |-> gameState, disconnectTime |-> DisconnectTime]
  /\ gatewayImpl = "websocket"
  /\ users = [u \in Users |-> NoUser]
  /\ allUsers = [u \in Users |-> NoUser]
  /\ blueScore = 0
  /\ redScore = 0
  /\ totalTaps = 0
  /\ topic = [p \in Partitions |-> <<>>]
  /\ nextEventId = 0
  /\ clients = [c \in Clients |-> "closed"]
  /\ clientToUserId = [c \in Clients |-> NoUserId]
  /\ clientPingTimes = [c \in Clients |-> FALSE]
  /\ sent = noFrames
  /\ initialState = [c \in Clients |-> FALSE]
  /\ join = [c \in Clients |-> IdleJoin]
  /\ leave = [c \in Clients |-> IdleLeave]
  /\ tap = [r \in Requests |-> IdleTap]
  /\ consumer = IdleConsumer
  /\ applied = <<>>
  /\ joins = [c \in Clients |-> MaxJoins]
  /\ comebacks = [u \in Users |-> 0]
  /\ auxIdleExcept("sessionEnd")

NextSessionEnd == leave_publishSessionEvent

SpecSessionEnd == InitSessionEnd /\ [][NextSessionEnd]_vars

joinedAs(p) == {c \in Clients : clients[c] = "open" /\ clientToUserId[c] = p}

\* C21: with no handler in flight, the active-session counter on a player's
\* record equals the number of open connections joined as that player
\* (gateway websocket.ts).
C21_ActiveSessionsCountsConnections ==
  (gatewayImpl = "websocket" /\ inFlight = 0) =>
    \A p \in Users :
      allUsers[p] # NoUser => allUsers[p].activeSessions = Cardinality(joinedAs(p))

(* ------------------------------------------------------------------ *)
(* Replayed joins: player u1 has joined on connection c1, which sends *)
(* its user_join message again while taps of u1 are submitted and     *)
(* applied.  The second connection is never opened.                   *)
(* ------------------------------------------------------------------ *)
InitReplay ==
  /\ gatewayImpl = "websocket"
  /\ users = [u \in Users |-> IF u = "u1" THEN JoinedUser("blue", 0, 0) ELSE NoUser]
  /\ allUsers = users
  /\ blueScore = 0
  /\ redScore = 0
  /\ totalTaps = 0
  /\ topic = [p \in Partitions |-> <<>>]
  /\ nextEventId = 0
  /\ clients = [c \in Clients |-> IF c = "c1" THEN "open" ELSE "new"]
  /\ clientToUserId = [c \in Clients |-> IF c = "c1" THEN "u1" ELSE NoUserId]
  /\ clientPingTimes = [c \in Clients |-> FALSE]
  /\ sent = noFrames
  /\ initialState = [c \in Clients |-> FALSE]
  /\ join = [c \in Clients |-> IdleJoin]
  /\ leave = [c \in Clients |-> IdleLeave]
  /\ tap = [r \in Requests |-> IdleTap]
  /\ consumer = IdleConsumer
  /\ applied = <<>>
  /\ joins = [c \in Clients |-> 0]
  /\ comebacks = [u \in Users |-> 0]
  /\ sessionEnd = NoSessionEnd
  /\ kafka = NoKafka
  /\ updates = NoUpdates
  /\ disconnect = NoDisconnect
  /\ probe = NoProbe
  /\ unknownLog = NoUnknownLog
  /\ tapHistory = NoTapHistory
  /\ process = Serving
  /\ tapMetrics = NoTapMetrics
  /\ response = NoResponse
  /\ fanOut = NoFanOut

NextReplay ==
  \/ \E c \in Clients, userData \in UserData :
       /\ userData.id = clientToUserId[c]
       /\ joins[c] < MaxReplays
       /\ handleUserJoin(c, userData)
  \/ \E c \in Clients : join_trackVisit(c)
  \/ \E c \in Clients : join_trackVisit_hset(c)
  \/ \E c \in Clients : join_incrementActiveSessions(c)
  \/ \E c \in Clients : join_incrementActiveSessions_hset(c)
  \/ \E c \in Clients : join_addUser(c)
  \/ \E c \in Clients : join_reply(c)
  \/ \E r \in Requests, body \in TapBody : tapsAccepted < MaxTaps /\ POST(r, body)
  \/ \E r \in Requests : tap_trackFirstTap(r)
  \/ \E r \in Requests : tap_trackFirstTap_hset(r)
  \/ \E r \in Requests : tap_updatePreviousTapCount(r)
  \/ \E r \in Requests : tap_updatePreviousTapCount_hset(r)
  \/ \E r \in Requests : tap_send(r)
  \/ \E partition \in Partitions : eachMessage(partition)
  \/ incrementUserTaps_hset
  \/ incrementUserTaps_incrTeam
  \/ incrementUserTaps_incrTotal
  \/ processTapEvent_broadcastGameUpdate

SpecReplay == InitReplay /\ [][NextReplay]_vars

\* The open connections joined, or in the middle of joining, as player p.
joiningAs(p) ==
  joinedAs(p) \cup {c \in Clients : clients[c] = "open" /\ join[c].pc # "idle" /\ join[c].id = p}

\* C22: while a joined connection replays its join message, the player's
\* active-session counter never exceeds the number of distinct open
\* connections joined as that player.
C22_ReplayKeepsActiveSessions ==
  \A p \in Users :
    allUsers[p] # NoUser => allUsers[p].activeSessions <= Cardinality(joiningAs(p))

\* C23: with no handler in flight, the record of every player who has joined
\* carries the visit timestamp of a join and a visit count of at least one
\* (gateway websocket.ts), so that the player's next join is a return visit.
C23_VisitStaysOnRecord ==
  (gatewayImpl = "websocket" /\ inFlight = 0) =>
    \A p \in Users :
      allUsers[p] # NoUser =>
        allUsers[p].lastVisitTime # 0 /\ allUsers[p].visitCount >= 1

(* ------------------------------------------------------------------ *)
(* websocket.ts: sendToClient, broadcast, broadcastExcept and          *)
(* broadcastGameUpdate as loops over the clients map                  *)
(* ------------------------------------------------------------------ *)
\* No game is being played: the state of the game in the specifications of
\* single functions.
gameIdle ==
  /\ gatewayImpl = "websocket"
  /\ users = [u \in Users |-> NoUser]
  /\ allUsers = [u \in Users |-> NoUser]
  /\ blueScore = 0
  /\ redScore = 0
  /\ totalTaps = 0
  /\ topic = [p \in Partitions |-> <<>>]
  /\ nextEventId = 0
  /\ clients = [c \in Clients |-> "closed"]
  /\ clientToUserId = [c \in Clients |-> NoUserId]
  /\ clientPingTimes = [c \in Clients |-> FALSE]
  /\ sent = noFrames
  /\ initialState = [c \in Clients |-> FALSE]
  /\ join = [c \in Clients |-> IdleJoin]
  /\ leave = [c \in Clients |-> IdleLeave]
  /\ tap = [r \in Requests |-> IdleTap]
  /\ consumer = IdleConsumer
  /\ applied = <<>>
  /\ joins = [c \in Clients |-> MaxJoins]
  /\ comebacks = [u \in Users |-> 0]

\* The connection ids of the fan-out, in the order they were registered
\* (Map.forEach visits the entries in insertion order).
SocketOrder == <<"s1", "s2", "s3">>

Sockets == {SocketOrder[i] : i \in 1 .. Len(SocketOrder)}

NoSocket == "none"

\* WebSocket.readyState, or "absent" for an id the clients map does not hold.
ReadyStates == {"connecting", "open", "closing", "closed"}

\* The fan-outs: kind, and the clientId argument of those that take one.
FanOutCalls ==
  [kind : {"broadcast", "broadcastGameUpdate"}, clientId : {NoSocket}]
    \cup [kind : {"sendToClient", "broadcastExcept"}, clientId : Sockets]

\* A client.send without the readyState test.
sendIfOpen_always(writes, readyState, clientId) == Append(writes, clientId)

\* if (client.readyState === WebSocket.OPEN) client.send(...): the socket
\* written to is appended to the writes made so far.
sendIfOpen(writes, readyState, clientId) ==
  IF readyState[clientId] = "open" THEN Append(writes, clientId) ELSE writes

\* this.clients.forEach((client, clientId) => ...): one visit per registered
\* id, in order; excludeClientId is passed over.
RECURSIVE forEachClient(_, _, _, _)
forEachClient(ids, readyState, excludeClientId, writes) ==
  IF ids = <<>> THEN writes
  ELSE LET clientId == Head(ids)
           visited == IF readyState[clientId] = "absent" \/ clientId = excludeClientId
                      THEN writes
                      ELSE sendIfOpen(writes, readyState, clientId)
       IN forEachClient(Tail(ids), readyState, excludeClientId, visited)

\* The writes one call makes.
fanOutWrites(call, readyState) ==
  IF call.kind = "sendToClient"
  THEN IF readyState[call.clientId] # "absent"
       THEN sendIfOpen(<<>>, readyState, call.clientId) ELSE <<>>
  ELSE forEachClient(SocketOrder, readyState, call.clientId, <<>>)

\* The call runs to its end.
fanOutCall ==
  /\ fanOut.kind # "none"
  /\ ~fanOut.done
  /\ fanOut' = [fanOut EXCEPT !.done = TRUE,
                              !.writes = fanOutWrites(fanOut, fanOut.readyState)]
  /\ UNCHANGED gameVars
  /\ auxUnchangedExcept("fanOut")

InitFanOut ==
  /\ \E call \in FanOutCalls, readyState \in [Sockets -> ReadyStates \cup {"absent"}] :
       fanOut = [kind |-> call.kind, clientId |-> call.clientId,
                 readyState |-> readyState, done |-> FALSE, writes |-> <<>>]
  /\ gameIdle
  /\ auxIdleExcept("fanOut")

NextFanOut == fanOutCall

SpecFanOut == InitFanOut /\ [][NextFanOut]_vars

\* The number of writes a fan-out made to socket s.
writesTo(s) == Cardinality({i \in 1 .. Len(fanOut.writes) : fanOut.writes[i] = s})

\* The sockets a fan-out is addressed to.
addressed(s) ==
  CASE fanOut.kind = "sendToClient" -> s = fanOut.clientId
    [] fanOut.kind = "broadcastExcept" -> s # fanOut.clientId
    [] OTHER -> TRUE

\* C24: a fan-out writes exactly once to every socket it is addressed to whose
\* readyState is OPEN, and never to a socket that is connecting, closing,
\* closed or no longer registered, whatever the state of the other sockets.
C24_OnceToEveryOpenSocket ==
  (fanOut.kind # "none" /\ fanOut.done) =>
    \A s \in Sockets :
      writesTo(s) = IF addressed(s) /\ fanOut.readyState[s] = "open" THEN 1 ELSE 0

\* A broadcast that passes over a closing socket and reaches the two after it.
C24_Witness ==
  /\ fanOut.kind = "broadcast"
  /\ fanOut.done
  /\ fanOut.readyState = [s \in Sockets |-> IF s = "s1" THEN "closing" ELSE "open"]
  /\ fanOut.writes = <<"s2", "s3">>

\* C27: a join whose event could not be published (the producer is not
\* initialised, or the send fails) has persisted the player and bound the
\* connection and goes on to its reply, and every reply sends the requester
\* the game state with its own record (gateway websocket.ts).
C27_PublishFailureKeepsJoin ==
  [][\A c \in Clients :
       /\ (join[c].pc = "addUser" /\ join'[c] # join[c]) =>
            /\ join'[c].pc = "reply"
            /\ users'[join[c].id] # NoUser /\ allUsers'[join[c].id] # NoUser
            /\ clientToUserId'[c] = join[c].id
       /\ (gatewayImpl = "websocket" /\ join[c].pc = "reply" /\ join'[c] # join[c]
             /\ clients[c] = "open") =>
            /\ sent'[c].type = "game_update"
            /\ sent'[c].user = join[c].id]_vars

\* A join whose publish failed, about to reply.
C27_Witness ==
  \E c \in Clients :
    /\ join[c].pc = "reply"
    /\ join[c].publishFailed
    /\ users[join[c].id] # NoUser
    /\ clientToUserId[c] = join[c].id

(* ------------------------------------------------------------------ *)
(* The state snapshot endpoints: GET /state of the gateway and        *)
(* GET /api/game-state of the web process                             *)
(* ------------------------------------------------------------------ *)
\* GameWebSocketServer.gameState, the field getGameState() of the in-memory
\* server returns: it is recomputed by addUser, removeUser and
\* updateUserTaps of that class, which no code calls (initialize, which
\* would accept the connections that reach them, is never called either),
\* so it keeps the value of its initialiser.
gameWebSocketServer_getGameState == NoGameState

\* handleStateRequest: gameState: await getGameState().
handleStateRequest ==
  /\ response' = [endpoint |-> "/state", gameState |-> getGameState]
  /\ UNCHANGED gameVars
  /\ auxUnchangedExcept("response")

\* GET of app/api/game-state/route.ts: gameState is
\* gameWebSocketServer.getGameState().
GET ==
  /\ response' = [endpoint |-> "/api/game-state",
                  gameState |-> gameWebSocketServer_getGameState]
  /\ UNCHANGED gameVars
  /\ auxUnchangedExcept("response")

NextSnapshot ==
  \/ NextReplay
  \/ handleStateRequest
  \/ GET

SpecSnapshot == InitReplay /\ [][NextSnapshot]_vars

\* C28: every answer of a state snapshot endpoint carries the team counters,
\* the total-taps counter and the size of the active view that the store
\* holds when the endpoint is asked.
C28_SnapshotIsStoreState ==
  [][response' # response =>
       /\ response'.gameState.blueScore = blueScore
       /\ response'.gameState.redScore = redScore
       /\ response'.gameState.totalTaps = totalTaps
       /\ response'.gameState.activeUsers =
            Cardinality({u \in Users : users[u] # NoUser})]_vars

(* ------------------------------------------------------------------ *)
(* redis.ts: calculateTapMetrics                                      *)
(* ------------------------------------------------------------------ *)
\* currentTimestamp of the calls followed.
Now == 10000

\* Timestamps of the history: now, and instants around the 1000 ms and
\* 3000 ms windows before it.
TapTimes ==
  {Now, Now - 200, Now - 400, Now - 600, Now - 800, Now - 1000, Now - 1001,
   Now - 3000, Now - 3001}

\* The histories updateTapHistory returns: most recent first.
TapHistories ==
  {h \in UNION {[1 .. n -> TapTimes] : n \in 0 .. MaxHistory} :
     \A i \in 1 .. (Len(h) - 1) : h[i] > h[i + 1]}

\* tapTimestamps.filter(ts => lo <= ts && ts <= hi), in order.
RECURSIVE filterBetween(_, _, _)
filterBetween(tapTimestamps, lo, hi) ==
  IF tapTimestamps = <<>> THEN <<>>
  ELSE LET rest == filterBetween(Tail(tapTimestamps), lo, hi)
       IN IF lo <= Head(tapTimestamps) /\ Head(tapTimestamps) <= hi
          THEN <<Head(tapTimestamps)>> \o rest ELSE rest

\* The largest timestamp of the histories (filter(ts => ts >= x) has no
\* upper limit).
NoLimit == Now

\* A burstCount whose window leaves out a tap exactly one second old.
burstCount_strict(tapTimestamps, currentTimestamp) ==
  Len(filterBetween(tapTimestamps, currentTimestamp - 1000 + 1, NoLimit))

\* burstCount: tapTimestamps.filter(ts => ts >= currentTimestamp - 1000).length.
burstCount(tapTimestamps, currentTimestamp) ==
  Len(filterBetween(tapTimestamps, currentTimestamp - 1000, NoLimit))

\* recentTaps: tapTimestamps.filter(ts => ts >= currentTimestamp - 3000).
recentTaps(tapTimestamps, currentTimestamp) ==
  filterBetween(tapTimestamps, currentTimestamp - 3000, NoLimit)

\* tapVelocity, in tenths as Math.round(tapVelocity * 10) / 10 returns it:
\* recentTaps.length / ((currentTimestamp - oldest recent tap) / 1000), which
\* is Infinity when that tap is at currentTimestamp.
tapVelocity(tapTimestamps, currentTimestamp) ==
  LET recent == recentTaps(tapTimestamps, currentTimestamp)
      elapsed == currentTimestamp - recent[Len(recent)]
  IN IF recent = <<>> THEN [infinite |-> FALSE, tenths |-> 0]
     ELSE IF elapsed = 0 THEN [infinite |-> TRUE, tenths |-> 0]
     ELSE [infinite |-> FALSE,
           tenths |-> (2 * 10 * 1000 * Len(recent) + elapsed) \div (2 * elapsed)]

\* maxBurst: the most taps in the second that ends at any one tap.
RECURSIVE maxBurst(_, _)
maxBurst(tapTimestamps, i) ==
  IF i > Len(tapTimestamps) THEN 0
  ELSE LET windowTaps == filterBetween(tapTimestamps, tapTimestamps[i] - 1000,
                                       tapTimestamps[i])
           rest == maxBurst(tapTimestamps, i + 1)
       IN IF Len(windowTaps) > rest THEN Len(windowTaps) ELSE rest

\* calculateTapMetrics.
calculateTapMetrics(tapTimestamps, currentTimestamp) ==
  IF Len(tapTimestamps) = 0
  THEN [tapVelocity |-> [infinite |-> FALSE, tenths |-> 0], timeSinceLastTap |-> 0,
        burstCount |-> 0, maxBurst |-> 0, isFrenzyMode |-> FALSE]
  ELSE LET velocity == tapVelocity(tapTimestamps, currentTimestamp)
       IN [tapVelocity |-> velocity,
           timeSinceLastTap |-> currentTimestamp - tapTimestamps[1],
           burstCount |-> burstCount(tapTimestamps, currentTimestamp),
           maxBurst |-> maxBurst(tapTimestamps, 1),
           isFrenzyMode |->
             /\ velocity.infinite \/ velocity.tenths > 50
             /\ Len(recentTaps(tapTimestamps, currentTimestamp)) >= 15]

\* The call returns.
calculateTapMetrics_return ==
  /\ tapMetrics.called = "pending"
  /\ tapMetrics' = [tapMetrics EXCEPT
       !.called = "returned",
       !.result = calculateTapMetrics(tapMetrics.tapTimestamps,
                                      tapMetrics.currentTimestamp)]
  /\ UNCHANGED gameVars
  /\ auxUnchangedExcept("tapMetrics")

InitTapMetrics ==
  /\ \E tapTimestamps \in TapHistories :
       tapMetrics = [called |-> "pending", tapTimestamps |-> tapTimestamps,
                     currentTimestamp |-> Now,
                     result |-> calculateTapMetrics(<<>>, Now)]
  /\ gameIdle
  /\ auxIdleExcept("tapMetrics")

NextTapMetrics == calculateTapMetrics_return

SpecTapMetrics == InitTapMetrics /\ [][NextTapMetrics]_vars

\* The history [t, t-200, t-400, t-600, t-800].
fiveTapsHistory(t) == <<t, t - 200, t - 400, t - 600, t - 800>>

\* C29: calculateTapMetrics returns as burstCount the number of history
\* entries at or after now - 1000 and, for a history that is not empty, as
\* timeSinceLastTap now minus the newest entry; for the history
\* [t, t-200, t-400, t-600, t-800] at now = t it returns burstCount 5 and a
\* tapVelocity above 0.
C29_TapMetrics ==
  tapMetrics.called = "returned" =>
    LET h == tapMetrics.tapTimestamps
        now == tapMetrics.currentTimestamp
        result == tapMetrics.result
    IN /\ result.burstCount = Cardinality({i \in 1 .. Len(h) : h[i] >= now - 1000})
       /\ h # <<>> =>
            /\ \E i \in 1 .. Len(h) : result.timeSinceLastTap = now - h[i]
            /\ \A i \in 1 .. Len(h) : result.timeSinceLastTap <= now - h[i]
       /\ h = fiveTapsHistory(now) =>
            /\ result.burstCount = 5
            /\ result.tapVelocity.infinite \/ result.tapVelocity.tenths > 0

\* The call with the history [t, t-200, t-400, t-600, t-800] has returned.
C29_Witness ==
  /\ tapMetrics.called = "returned"
  /\ tapMetrics.tapTimestamps = fiveTapsHistory(tapMetrics.currentTimestamp)
  /\ tapMetrics.result.burstCount = 5
  /\ tapMetrics.result.tapVelocity.tenths = 63

(* ------------------------------------------------------------------ *)
(* The per-connection registries of websocket.ts: connections open,   *)
(* are probed for latency, join and close; no tap is submitted.       *)
(* ------------------------------------------------------------------ *)
InitRegistries == Init /\ gatewayImpl = "websocket"

NextRegistries ==
  \/ \E c \in Clients : connection(c)
  \/ \E c \in Clients : sendInitialState(c)
  \/ \E c \in Clients : pingInterval(c)
  \/ \E c \in Clients : handleLatencyMeasurement(c)
  \/ \E c \in Clients, userData \in UserData :
       joins[c] < MaxJoins /\ handleUserJoin(c, userData)
  \/ \E c \in Clients : join_balanceTeamAssignment(c)
  \/ \E c \in Clients : join_incrementReconnectCount(c)
  \/ \E c \in Clients : join_incrementReconnectCount_hset(c)
  \/ \E c \in Clients : join_trackVisit(c)
  \/ \E c \in Clients : join_trackVisit_hset(c)
  \/ \E c \in Clients : join_incrementActiveSessions(c)
  \/ \E c \in Clients : join_incrementActiveSessions_hset(c)
  \/ \E c \in Clients : join_addUser(c)
  \/ \E c \in Clients : join_reply(c)
  \/ \E c \in Clients : handleClientDisconnect(c)
  \/ \E c \in Clients : leave_getUser(c)
  \/ \E c \in Clients : leave_decrementActiveSessions(c)
  \/ \E c \in Clients : leave_decrementActiveSessions_hset(c)
  \/ \E c \in Clients : leave_updateUserDisconnectTime(c)
  \/ \E c \in Clients : leave_updateUserDisconnectTime_hset(c)
  \/ \E c \in Clients : leave_removeUser(c)
  \/ \E c \in Clients : leave_broadcastGameUpdate(c)

SpecRegistries == InitRegistries /\ [][NextRegistries]_vars

\* No handler started for connection c is still running.
handlersFinished(c) ==
  ~initialState[c] /\ join[c].pc = "idle" /\ leave[c].pc = "idle"

\* C30: once a connection has closed and the handlers started for it have
\* finished, the gateway holds no binding to a player and no outstanding ping
\* time under its connection id, whether or not it had joined.
C30_RegistriesEmptyAfterClose ==
  \A c \in Clients :
    (clients[c] = "closed" /\ handlersFinished(c)) =>
      clientToUserId[c] = NoUserId /\ ~clientPingTimes[c]

(* ------------------------------------------------------------------ *)
(* Process start: startServer of the gateway entry point and          *)
(* app.prepare().then of server.ts, with initializeKafka and          *)
(* startKafkaConsumer                                                 *)
(* ------------------------------------------------------------------ *)
\* A process that has just been started.
Started(name, storeReachable, logReachable, topicsExist) ==
  [name |-> name, pc |-> "connectRedis", storeReachable |-> storeReachable,
   logReachable |-> logReachable, topicsExist |-> topicsExist,
   redisReady |-> FALSE, listening |-> FALSE, isInitialized |-> FALSE,
   consumerRunning |-> FALSE, failed |-> FALSE]

\* The steps of initializeKafka that talk to the brokers, in order.
KafkaSteps ==
  <<"producer.connect", "consumer.connect", "admin.connect", "listTopics",
    "createTopics", "admin.disconnect">>

\* The step of initializeKafka after step i; createTopics is passed over
\* when no topic is missing.
afterKafkaStep(p, i) ==
  IF i = Len(KafkaSteps) THEN "initialized"
  ELSE IF KafkaSteps[i + 1] = "createTopics" /\ p.topicsExist THEN KafkaSteps[i + 2]
  ELSE KafkaSteps[i + 1]

\* What a failed connectRedis or initializeKafka leads to.  startServer of
\* the gateway: catch (error) { process.exit(1) }.  server.ts: the error is
\* logged and the start goes on ("Continue without Redis / Kafka").
startFailed(p) ==
  IF p.name = "gateway" THEN [p EXCEPT !.pc = "exit1", !.failed = TRUE]
  ELSE [p EXCEPT !.pc = IF p.pc = "connectRedis" THEN KafkaSteps[1] ELSE "listen",
                 !.failed = TRUE]

\* The store or the log becomes unreachable while the process starts.
outage ==
  /\ process.pc \notin {"serving", "exit1"}
  /\ \E store, log \in BOOLEAN :
       /\ (store => process.storeReachable) /\ (log => process.logReachable)
       /\ <<store, log>> # <<process.storeReachable, process.logReachable>>
       /\ process' = [process EXCEPT !.storeReachable = store, !.logReachable = log]
  /\ UNCHANGED gameVars
  /\ auxUnchangedExcept("process")

\* await connectRedis(): StandaloneWebSocketServer.start does it first and
\* then listens; server.ts does it before initializeKafka.
connectRedis ==
  /\ process.pc = "connectRedis"
  /\ process' =
       IF process.storeReachable
       THEN [process EXCEPT !.redisReady = TRUE,
               !.pc = IF process.name = "gateway" THEN "listen" ELSE KafkaSteps[1]]
       ELSE startFailed(process)
  /\ UNCHANGED gameVars
  /\ auxUnchangedExcept("process")

\* One step of initializeKafka; a step that fails throws, the last one sets
\* isInitialized.
initializeKafka ==
  /\ \E i \in 1 .. Len(KafkaSteps) :
       /\ process.pc = KafkaSteps[i]
       /\ process' =
            IF ~process.logReachable THEN startFailed(process)
            ELSE IF afterKafkaStep(process, i) # "initialized"
            THEN [process EXCEPT !.pc = afterKafkaStep(process, i)]
            ELSE [process EXCEPT !.isInitialized = TRUE,
                    !.pc = IF process.name = "gateway" THEN "startKafkaConsumer"
                           ELSE "listen"]
  /\ UNCHANGED gameVars
  /\ auxUnchangedExcept("process")

\* startKafkaConsumer: getConsumer throws unless isInitialized; subscribe and
\* run need the brokers.
startKafkaConsumer ==
  /\ process.pc = "startKafkaConsumer"
  /\ process' =
       IF ~process.isInitialized \/ ~process.logReachable THEN startFailed(process)
       ELSE [process EXCEPT !.consumerRunning = TRUE, !.pc = "serving"]
  /\ UNCHANGED gameVars
  /\ auxUnchangedExcept("process")

\* server.listen: the gateway listens at the end of start(), before
\* initializeKafka; server.ts listens last and then serves.
listen ==
  /\ process.pc = "listen"
  /\ process' = [process EXCEPT !.listening = TRUE,
                   !.pc = IF process.name = "gateway" THEN KafkaSteps[1] ELSE "serving"]
  /\ UNCHANGED gameVars
  /\ auxUnchangedExcept("process")

InitStartup ==
  /\ \E name \in {"gateway", "web"}, storeReachable, logReachable, topicsExist \in BOOLEAN :
       process = Started(name, storeReachable, logReachable, topicsExist)
  /\ gameIdle
  /\ auxIdleExcept("process")

NextStartup ==
  \/ outage
  \/ connectRedis
  \/ initializeKafka
  \/ startKafkaConsumer
  \/ listen

SpecStartup == InitStartup /\ [][NextStartup]_vars

\* C25: a process that could not reach the store or the log while it started
\* does not go on to serve, and the tap consumer runs only after the log
\* client has been initialised.
C25_FailedStartNeverServes ==
  /\ process.failed => process.pc # "serving"
  /\ process.consumerRunning => process.isInitialized

(* ------------------------------------------------------------------ *)
(* Process end: the SIGTERM and SIGINT listeners of the gateway entry *)
(* point, while joins are replayed and taps are applied               *)
(* ------------------------------------------------------------------ *)
Signals == {"SIGTERM", "SIGINT"}

\* The listener of the entry point runs: standaloneWebSocketServer.stop(),
\* then process.exit(0).  The process ends inside this listener, so its
\* sockets are gone, no handler of the process takes another step, and the
\* shutdown listener initializeKafka registered after it is not called.
shutdown(signal) ==
  /\ process.pc = "serving"
  /\ process' = [process EXCEPT !.pc = "exit0", !.listening = FALSE,
                                !.consumerRunning = FALSE]
  /\ clients' = [c \in Clients |-> IF clients[c] = "open" THEN "closed" ELSE clients[c]]
  /\ quiet
  /\ UNCHANGED <<gatewayImpl, storeVars, topic, nextEventId, clientToUserId,
                 clientPingTimes, initialState, join, leave, tap, consumer,
                 applied, joins, comebacks>>
  /\ auxUnchangedExcept("process")

NextShutdown ==
  \/ process.pc = "serving" /\ NextReplay
  \/ \E signal \in Signals : shutdown(signal)

SpecShutdown == InitReplay /\ [][NextShutdown]_vars

\* A handler of the gateway process has store writes still to make: a join
\* before its addUser has returned, a disconnect before its removeUser has
\* returned, or the consumer between the record write and the last counter
\* increment of a tap.
gatewayWriteInFlight ==
  \/ \E c \in Clients : join[c].pc \notin {"idle", "reply"}
  \/ \E c \in Clients : leave[c].pc \notin {"idle", "broadcastGameUpdate"}
  \/ consumer.pc \in {"hset", "incr_team", "incr_total"}

\* C26: when the process ends on SIGTERM or SIGINT, no handler of the process
\* has a store write in flight.
C26_ShutdownAfterWrites ==
  [][(process.pc = "serving" /\ process'.pc = "exit0") => ~gatewayWriteInFlight]_vars

(* ------------------------------------------------------------------ *)
(* redis.ts: trackTapTimestamp, called by concurrent POST /api/tap     *)
(* ------------------------------------------------------------------ *)
\* ltrim(key, 0, 19) keeps this many entries.
HistoryLimit == 20

\* The POST requests of one player that call trackTapTimestamp.
TapCalls == {"t1", "t2", "t3"}

\* const timestamp = Date.now() of each request.
timestampOf(t) == CASE t = "t1" -> 101 [] t = "t2" -> 102 [] OTHER -> 103

\* The list earlier taps left under the key, newest first: n entries.
storedHistory(n) == [i \in 1 .. n |-> n + 1 - i]

\* The result of inserting x into a sequence sorted in descending order.
RECURSIVE insertDescending(_, _)
insertDescending(sorted, x) ==
  IF sorted = <<>> THEN <<x>>
  ELSE IF x >= Head(sorted) THEN <<x>> \o sorted
       ELSE <<Head(sorted)>> \o insertDescending(Tail(sorted), x)

\* timestamps.map(parseInt).sort((a, b) => b - a)
RECURSIVE sortDescending(_)
sortDescending(timestamps) ==
  IF timestamps = <<>> THEN <<>>
  ELSE insertDescending(sortDescending(Tail(timestamps)), Head(timestamps))

\* LTRIM key start stop, for a start of 0: the entries 0 .. stop remain.
ltrim(list, start, stop) ==
  SubSeq(list, start + 1, IF Len(list) < stop + 1 THEN Len(list) ELSE stop + 1)

\* await client.lpush(key, timestamp.toString())
trackTapTimestamp_lpush(t) ==
  /\ tapHistory.call[t].pc = "lpush"
  /\ tapHistory' = [tapHistory EXCEPT !.list = <<timestampOf(t)>> \o @,
                                      !.call[t].pc = "ltrim"]
  /\ UNCHANGED gameVars
  /\ auxUnchangedExcept("tapHistory")

\* await client.ltrim(key, 0, 19)
trackTapTimestamp_ltrim(t) ==
  /\ tapHistory.call[t].pc = "ltrim"
  /\ tapHistory' = [tapHistory EXCEPT !.list = ltrim(@, 0, HistoryLimit - 1),
                                      !.call[t].pc = "lrange"]
  /\ UNCHANGED gameVars
  /\ auxUnchangedExcept("tapHistory")

\* const timestamps = await client.lrange(key, 0, -1); return the sorted list
trackTapTimestamp_lrange(t) ==
  /\ tapHistory.call[t].pc = "lrange"
  /\ tapHistory' = [tapHistory EXCEPT !.call[t].pc = "returned",
                                      !.call[t].returned = sortDescending(tapHistory.list)]
  /\ UNCHANGED gameVars
  /\ auxUnchangedExcept("tapHistory")

InitTapHistory ==
  /\ \E n \in {0, HistoryLimit - 1, HistoryLimit} :
       tapHistory = [list |-> storedHistory(n),
                     call |-> [t \in TapCalls |-> [pc |-> "lpush", returned |-> <<>>]]]
  /\ gameIdle
  /\ auxIdleExcept("tapHistory")

NextTapHistory ==
  \E t \in TapCalls :
    \/ trackTapTimestamp_lpush(t)
    \/ trackTapTimestamp_ltrim(t)
    \/ trackTapTimestamp_lrange(t)

SpecTapHistory == InitTapHistory /\ [][NextTapHistory]_vars

\* C31: the tap-timestamp list of a player never holds more than 20 entries
\* and trackTapTimestamp never returns more than 20 timestamps, also when
\* several tap submissions of the player run interleaved.
C31_HistoryAtMostTwenty ==
  /\ Len(tapHistory.list) <= HistoryLimit
  /\ \A t \in TapCalls : Len(tapHistory.call[t].returned) <= HistoryLimit

(* ------------------------------------------------------------------ *)
(* websocket.ts: handleMessage, default case                          *)
(* ------------------------------------------------------------------ *)
\* Message types that are neither 'ping' nor 'user_join'.
UnknownTypes == {"tap", "pong"}

\* A default case that closes the socket.
afterUnknownMessage_close(conns, c) == [conns EXCEPT ![c] = "closed"]

\* default: console.log('Unknown message type:', message.type): the socket is
\* left as it is.
afterUnknownMessage(conns, c) == conns

\* ws.on('message') for a message of an unknown type: JSON.parse succeeds, the
\* type is not 'ping', handleMessage takes the default case.
handleMessage_default(c, type) ==
  /\ gatewayImpl = "websocket"
  /\ clients[c] = "open"
  /\ unknownLog.count < MaxUnknown
  /\ unknownLog' = [count |-> unknownLog.count + 1, client |-> c, type |-> type,
                    joinsBefore |-> joins[c]]
  /\ clients' = afterUnknownMessage(clients, c)
  /\ quiet
  /\ UNCHANGED <<gatewayImpl, storeVars, topic, nextEventId, clientToUserId,
                 clientPingTimes, initialState, join, leave, tap, consumer,
                 applied, joins, comebacks>>
  /\ auxUnchangedExcept("unknownLog")

NextMessages ==
  \/ NextRegistries
  \/ \E c \in Clients, type \in UnknownTypes : handleMessage_default(c, type)

SpecMessages == InitRegistries /\ [][NextMessages]_vars

\* C32: a step that handles a message of an unknown type changes no store
\* state and no gateway registry, starts no handler, writes to no socket and
\* leaves the connection open.
C32_UnknownTypeWithoutEffect ==
  [][unknownLog'.count # unknownLog.count =>
       /\ UNCHANGED <<storeVars, topic, clients, clientToUserId, clientPingTimes>>
       /\ UNCHANGED <<initialState, join, leave>>
       /\ sent' = noFrames
       /\ clients'[unknownLog'.client] = "open"]_vars

\* A connection sent a message of an unknown type before its user_join, and
\* the join that followed has bound the connection to its player.
C32_Witness ==
  /\ unknownLog.count >= 1
  /\ unknownLog.joinsBefore = 0
  /\ joins[unknownLog.client] = 1
  /\ clients[unknownLog.client] = "open"
  /\ clientToUserId[unknownLog.client] # NoUserId
  /\ join[unknownLog.client].pc = "idle"

(* ------------------------------------------------------------------ *)
(* websocket.ts: the latency probe of one open connection, with the   *)
(* pings numbered in the order the gateway sends them                 *)
(* ------------------------------------------------------------------ *)
\* The connection has no player (clientToUserId has no entry), a player
\* whose record is gone (getUser returns null), or a player.
Bindings == {"unbound", "boundNoUser", "bound"}

\* setInterval callback: clientPingTimes.set(clientId, Date.now()) replaces
\* the time of an earlier ping; a ping frame is sent.
ping_setInterval ==
  /\ probe.binding # "none"
  /\ probe.sentPings < MaxPings
  /\ probe' = [probe EXCEPT !.sentPings = @ + 1,
                            !.pingTime = probe.sentPings + 1,
                            !.unanswered = Append(@, probe.sentPings + 1)]
  /\ UNCHANGED gameVars
  /\ auxUnchangedExcept("probe")

\* The client answers the oldest ping it has not answered yet, and the
\* message of type 'ping' arrives: a stored ping time is consumed and a
\* latency computed from it; handleLatencyMeasurement publishes a performance
\* event when the connection has a player with a record; a pong is sent back.
message_ping ==
  /\ probe.binding # "none"
  /\ probe.unanswered # <<>>
  /\ LET reply == Head(probe.unanswered)
         pingTime == probe.pingTime
     IN probe' = [probe EXCEPT
          !.unanswered = Tail(@),
          !.inbound = @ + 1,
          !.pongs = @ + 1,
          !.pingTime = 0,
          !.measured = IF pingTime # 0
                       THEN Append(@, [stored |-> pingTime, reply |-> reply])
                       ELSE @,
          !.events = IF pingTime # 0 /\ probe.binding = "bound" THEN @ + 1 ELSE @]
  /\ UNCHANGED gameVars
  /\ auxUnchangedExcept("probe")

InitProbe ==
  /\ \E binding \in Bindings :
       probe = [binding |-> binding, sentPings |-> 0, pingTime |-> 0,
                unanswered |-> <<>>, inbound |-> 0, pongs |-> 0,
                measured |-> <<>>, events |-> 0]
  /\ gameIdle
  /\ auxIdleExcept("probe")

NextProbe == ping_setInterval \/ message_ping

SpecProbe == InitProbe /\ [][NextProbe]_vars

\* The measurements made from the stored time of ping p.
measuredFrom(p) == {i \in 1 .. Len(probe.measured) : probe.measured[i].stored = p}

\* C33: from each ping the gateway sends at most one latency is computed, and
\* only on the reply to that ping; a connection not bound to a player yields no
\* performance event; every inbound ping message is answered with one pong.
C33_LatencyOnMatchingReply ==
  probe.binding # "none" =>
    /\ \A p \in 1 .. MaxPings : Cardinality(measuredFrom(p)) <= 1
    /\ \A i \in 1 .. Len(probe.measured) :
         probe.measured[i].reply = probe.measured[i].stored
    /\ probe.binding = "unbound" => probe.events = 0
    /\ probe.pongs = probe.inbound

(* ------------------------------------------------------------------ *)
(* websocket.ts: the 'close' and 'error' listeners of one joined      *)
(* connection, each calling handleClientDisconnect                    *)
(* ------------------------------------------------------------------ *)
\* The events a socket emits when it ends: 'close' alone, or 'error' followed
\* by 'close' (ws emits 'close' after every 'error').
SocketEndings == {"close", "errorThenClose"}

eventsOf(ending) == IF ending = "close" THEN <<"close">> ELSE <<"error", "close">>

SocketEvents == {"error", "close"}

\* A listener that has not been called / whose handler has returned.
NotCalled == [pc |-> "notCalled"]

\* ws.on('close') / ws.on('error'): handleClientDisconnect deletes the socket
\* from clients and handleUserLeave reads clientToUserId.
emit ==
  /\ disconnect.ending # "none"
  /\ disconnect.pending # <<>>
  /\ LET event == Head(disconnect.pending)
     IN disconnect' = [disconnect EXCEPT
          !.pending = Tail(@),
          !.registered = FALSE,
          !.handler[event].pc = IF disconnect.bound THEN "getUser" ELSE "done"]
  /\ UNCHANGED gameVars
  /\ auxUnchangedExcept("disconnect")

\* const user = await getUser(userId)
disconnect_getUser(h) ==
  /\ disconnect.ending # "none"
  /\ disconnect.handler[h].pc = "getUser"
  /\ disconnect' = [disconnect EXCEPT !.handler[h].pc =
       IF disconnect.record THEN "decrementActiveSessions" ELSE "removeUser"]
  /\ UNCHANGED gameVars
  /\ auxUnchangedExcept("disconnect")

\* await decrementActiveSessions(userId)
disconnect_decrementActiveSessions(h) ==
  /\ disconnect.ending # "none"
  /\ disconnect.handler[h].pc = "decrementActiveSessions"
  /\ disconnect' = [disconnect EXCEPT !.handler[h].pc = "updateUserDisconnectTime",
                                      !.decrementCalls = @ + 1]
  /\ UNCHANGED gameVars
  /\ auxUnchangedExcept("disconnect")

\* await updateUserDisconnectTime(userId, disconnectTime)
disconnect_updateUserDisconnectTime(h) ==
  /\ disconnect.ending # "none"
  /\ disconnect.handler[h].pc = "updateUserDisconnectTime"
  /\ disconnect' = [disconnect EXCEPT !.handler[h].pc = "getGameState"]
  /\ UNCHANGED gameVars
  /\ auxUnchangedExcept("disconnect")

\* const gameState = await getGameState()
disconnect_getGameState(h) ==
  /\ disconnect.ending # "none"
  /\ disconnect.handler[h].pc = "getGameState"
  /\ disconnect' = [disconnect EXCEPT !.handler[h].pc = "publishSessionEvent"]
  /\ UNCHANGED gameVars
  /\ auxUnchangedExcept("disconnect")

\* await publishSessionEvent(sessionEvent): session_end, rage_quit or marathon
disconnect_publishSessionEvent(h) ==
  /\ disconnect.ending # "none"
  /\ disconnect.handler[h].pc = "publishSessionEvent"
  /\ disconnect' = [disconnect EXCEPT !.handler[h].pc = "removeUser",
                                      !.sessionEvents = @ + 1]
  /\ UNCHANGED gameVars
  /\ auxUnchangedExcept("disconnect")

\* await this.broadcastGameUpdate(); the handler returns
disconnect_broadcastGameUpdate(h) ==
  /\ disconnect.ending # "none"
  /\ disconnect.handler[h].pc = "broadcastGameUpdate"
  /\ disconnect' = [disconnect EXCEPT !.handler[h].pc = "done"]
  /\ UNCHANGED gameVars
  /\ auxUnchangedExcept("disconnect")

\* await removeUser(userId); clientToUserId.delete; broadcast user_left
disconnect_removeUser(h) ==
  /\ disconnect.ending # "none"
  /\ disconnect.handler[h].pc = "removeUser"
  /\ disconnect' = [disconnect EXCEPT !.handler[h].pc = "broadcastGameUpdate",
                                      !.record = FALSE,
                                      !.bound = FALSE,
                                      !.userLeft = @ + 1]
  /\ UNCHANGED gameVars
  /\ auxUnchangedExcept("disconnect")

InitDisconnect ==
  /\ \E ending \in SocketEndings, record \in BOOLEAN :
       disconnect = [ending |-> ending, pending |-> eventsOf(ending), registered |-> TRUE, bound |-> TRUE,
                     record |-> record, hadRecord |-> record,
                     handler |-> [h \in SocketEvents |-> NotCalled],
                     decrementCalls |-> 0, sessionEvents |-> 0, userLeft |-> 0]
  /\ gameIdle
  /\ auxIdleExcept("disconnect")

NextDisconnect ==
  \/ emit
  \/ \E h \in SocketEvents :
       \/ disconnect_getUser(h)
       \/ disconnect_decrementActiveSessions(h)
       \/ disconnect_updateUserDisconnectTime(h)
       \/ disconnect_getGameState(h)
       \/ disconnect_publishSessionEvent(h)
       \/ disconnect_removeUser(h)
       \/ disconnect_broadcastGameUpdate(h)

SpecDisconnect == InitDisconnect /\ [][NextDisconnect]_vars

\* Every event of the ending has been emitted and every handler has returned.
disconnectHandled ==
  /\ disconnect.pending = <<>>
  /\ \A h \in SocketEvents : disconnect.handler[h].pc \in {"notCalled", "done"}

\* C34: when the closing of a joined connection has been handled, user_left
\* has been broadcast once and, if the player had a record, one session-ending
\* event has been published and the active-session counter has been
\* decremented once; this also when the socket raised an error before it closed.
C34_ClosingProcessedOnce ==
  (disconnect.ending # "none" /\ disconnectHandled) =>
    /\ disconnect.userLeft = 1
    /\ disconnect.sessionEvents = (IF disconnect.hadRecord THEN 1 ELSE 0)
    /\ disconnect.decrementCalls = (IF disconnect.hadRecord THEN 1 ELSE 0)

(* ------------------------------------------------------------------ *)
(* A connection that closes while its join is being processed         *)
(* ------------------------------------------------------------------ *)
\* No connection is open and no handler of any connection is running.
allClosedAndFinished ==
  \A c \in Clients : clients[c] # "open" /\ handlersFinished(c)

\* C35: once every connection has closed and the join and disconnect handlers
\* have finished, no player is left in the active view and no connection is
\* bound to a player, also for a connection that closed during its join.
C35_CloseDuringJoinLeavesNothing ==
  allClosedAndFinished =>
    /\ \A p \in Users : users[p] = NoUser
    /\ \A c \in Clients : clientToUserId[c] = NoUserId

(* ------------------------------------------------------------------ *)
(* redis.ts: incrementUserTaps when the store fails after the record  *)
(* has been written                                                   *)
(* ------------------------------------------------------------------ *)
\* The INCR commands of Promise.all([incr(teamScoreKey), incr(TOTAL_TAPS)]).
IncrCommands == {"team", "total"}

\* Promise.all rejects: the store has run some of the two INCR commands, not
\* both; the error is caught and logged by processTapEvent and eachMessage
\* returns.
incrementUserTaps_incrThrows ==
  /\ consumer.pc = "incr_team"
  /\ \E ran \in (SUBSET IncrCommands) \ {IncrCommands} :
       /\ blueScore' = IF "team" \in ran /\ consumer.user.team = "blue"
                       THEN blueScore + 1 ELSE blueScore
       /\ redScore' = IF "team" \in ran /\ consumer.user.team # "blue"
                      THEN redScore + 1 ELSE redScore
       /\ totalTaps' = IF "total" \in ran THEN totalTaps + 1 ELSE totalTaps
  /\ consumer' = IdleConsumer
  /\ UNCHANGED <<users, allUsers, topic, applied>>
  /\ quiet
  /\ UNCHANGED consumerFrame

NextTapFailure == NextPipeline \/ incrementUserTaps_incrThrows

SpecTapFailure == InitPipeline /\ [][NextTapFailure]_vars

\* C36: whenever no tap application is in progress, the total-taps counter
\* equals the sum of the two team scores.
C36_TotalIsSumOfScores ==
  consumerAtRest => totalTaps = blueScore + redScore

\* What the application of a tap has added to the player's tapCount when the
\* handler is at its current position.
tapCountAdded == IF consumer.pc \in {"idle", "hset"} THEN 0 ELSE 1

\* C37: when incrementUserTaps fails on a store operation, the player's
\* tapCount, the team counter and the total-taps counter have all been
\* incremented for the event or none of them has.
C37_TapAllOrNothing ==
  [][(consumer.pc \in {"hset", "incr_team", "incr_total"} /\ consumer'.pc = "idle") =>
       /\ (blueScore' + redScore') - (blueScore + redScore) = tapCountAdded
       /\ totalTaps' - totalTaps = tapCountAdded]_vars

(* ------------------------------------------------------------------ *)
(* websocket.ts / redis.ts: the game_update frames one connection is  *)
(* sent.  Every frame carries the result of a getGameState call, and  *)
(* every call of the process goes through its one ioredis connection  *)
(* ------------------------------------------------------------------ *)
\* The callers of getGameState that send its result to the connection.
Callers == {"sendInitialState", "handleUserJoin", "handleUserLeave", "processTapEvent"}

\* The GET commands of getGameState, in the order Promise.all issues them.
GetCommands == <<"blueScore", "redScore", "totalTaps">>

\* A store connection that answers the calls in any order.
answerable_any(queue) == 1 .. Len(queue)

\* The call whose next command the store answers: the connection of
\* getRedisClient() is one socket, and the commands of a call were written
\* to it before those of any later call.
answerable(queue) == IF queue = <<>> THEN {} ELSE {1}

\* The sequence without its i-th element.
without(seq, i) == SubSeq(seq, 1, i - 1) \o SubSeq(seq, i + 1, Len(seq))

\* const gameState = await getGameState(): the GET commands are written to
\* the connection.
gameUpdate_getGameState(caller) ==
  /\ updates.followed
  /\ updates.calls < MaxUpdates
  /\ updates' = [updates EXCEPT !.calls = @ + 1,
                                !.queue = Append(@, [caller |-> caller, read |-> <<>>])]
  /\ UNCHANGED gameVars
  /\ auxUnchangedExcept("updates")

\* The store answers the next GET of a call; with the last answer the call
\* returns and its caller sends the game_update frame.
gameUpdate_reply ==
  /\ updates.followed
  /\ \E i \in answerable(updates.queue) :
       LET call == updates.queue[i]
           key == GetCommands[Len(call.read) + 1]
           value == CASE key = "blueScore" -> updates.blueScore
                      [] key = "redScore" -> updates.redScore
                      [] OTHER -> updates.totalTaps
           read == Append(call.read, value)
       IN IF Len(read) < Len(GetCommands)
          THEN updates' = [updates EXCEPT !.queue[i].read = read]
          ELSE updates' = [updates EXCEPT
                 !.queue = without(@, i),
                 !.delivered = Append(@, [caller |-> call.caller,
                                          blueScore |-> read[1],
                                          redScore |-> read[2],
                                          totalTaps |-> read[3]])]
  /\ UNCHANGED gameVars
  /\ auxUnchangedExcept("updates")

\* incrementUserTaps of a tap being applied: INCR of a team score.
gameUpdate_incrTeam(team) ==
  /\ updates.followed
  /\ updates.incrs < MaxIncrs
  /\ updates' = [updates EXCEPT
       !.incrs = @ + 1,
       !.pendingTotal = @ + 1,
       !.blueScore = IF team = "blue" THEN @ + 1 ELSE @,
       !.redScore = IF team = "blue" THEN @ ELSE @ + 1]
  /\ UNCHANGED gameVars
  /\ auxUnchangedExcept("updates")

\* incrementUserTaps of a tap being applied: INCR of the total.
gameUpdate_incrTotal ==
  /\ updates.followed
  /\ updates.pendingTotal > 0
  /\ updates' = [updates EXCEPT !.pendingTotal = @ - 1, !.totalTaps = @ + 1]
  /\ UNCHANGED gameVars
  /\ auxUnchangedExcept("updates")

InitUpdates ==
  /\ updates = [followed |-> TRUE, blueScore |-> 0, redScore |-> 0, totalTaps |-> 0,
                pendingTotal |-> 0, incrs |-> 0, calls |-> 0, queue |-> <<>>,
                delivered |-> <<>>]
  /\ gameIdle
  /\ auxIdleExcept("updates")

NextUpdates ==
  \/ \E caller \in Callers : gameUpdate_getGameState(caller)
  \/ gameUpdate_reply
  \/ \E team \in Teams : gameUpdate_incrTeam(team)
  \/ gameUpdate_incrTotal

SpecUpdates == InitUpdates /\ [][NextUpdates]_vars

\* C38: in the sequence of game states sent to a connection, totalTaps and
\* both team scores never decrease, whichever handlers the states come from
\* and however their getGameState calls overlap with taps being applied.
C38_GameStatesNeverGoBack ==
  updates.followed =>
    \A i, j \in 1 .. Len(updates.delivered) :
      i < j =>
        /\ updates.delivered[i].totalTaps <= updates.delivered[j].totalTaps
        /\ updates.delivered[i].blueScore <= updates.delivered[j].blueScore
        /\ updates.delivered[i].redScore <= updates.delivered[j].redScore

\* Two calls of different handlers were in progress at the same time while a
\* tap was applied, and the connection was sent the older state first.
C38_Witness ==
  /\ updates.followed
  /\ Len(updates.delivered) = 2
  /\ updates.delivered[1].caller = "handleUserJoin"
  /\ updates.delivered[2].caller = "processTapEvent"
  /\ updates.delivered[1].totalTaps = 0
  /\ updates.delivered[2].totalTaps = 1
  /\ updates.delivered[2].blueScore = 1
  /\ Len(updates.queue) = 1

(* ------------------------------------------------------------------ *)
(* kafka.ts: initializeKafka called by several callers of one process, *)
(* getProducer and getConsumer                                        *)
(* ------------------------------------------------------------------ *)
\* The callers of initializeKafka in the web process: app.prepare().then of
\* server.ts and the module initialisation of the tap route.
InitCallers == {"server", "route"}

\* No producer / consumer object.
NoClient == 0

\* getProducer / getConsumer: throw unless the object exists and
\* isInitialized is set.
getProducer_throws == kafka.producer = NoClient \/ ~kafka.isInitialized

getConsumer_throws == kafka.consumer = NoClient \/ ~kafka.isInitialized

\* catch (error): isInitialized = false; throw error.
kafka_catch(k) ==
  [kafka EXCEPT !.isInitialized = FALSE, !.call[k].pc = "failed"]

\* initializeKafka is called: it returns at once if isInitialized is set,
\* otherwise it creates a producer and a consumer and starts to connect.
kafka_initializeKafka(k) ==
  /\ kafka.followed
  /\ kafka.call[k].pc \in {"notCalled", "failed"}
  /\ kafka.call[k].calls < MaxInitCalls
  /\ kafka' =
       IF kafka.isInitialized
       THEN [kafka EXCEPT !.call[k].pc = "returned", !.call[k].calls = @ + 1]
       ELSE [kafka EXCEPT !.call[k].pc = "producerConnect",
                          !.call[k].calls = @ + 1,
                          !.call[k].object = kafka.created + 1,
                          !.created = @ + 1,
                          !.producer = kafka.created + 1,
                          !.consumer = kafka.created + 1]
  /\ UNCHANGED gameVars
  /\ auxUnchangedExcept("kafka")

\* await producer.connect(): called in the turn that created the producer, so
\* on the producer of this call.
kafka_producerConnect(k) ==
  /\ kafka.followed
  /\ kafka.call[k].pc = "producerConnect"
  /\ \E ok \in BOOLEAN :
       kafka' = IF ok
                THEN [kafka EXCEPT !.call[k].pc = "consumerConnect",
                                   !.producersConnected = @ \cup {kafka.call[k].object}]
                ELSE kafka_catch(k)
  /\ UNCHANGED gameVars
  /\ auxUnchangedExcept("kafka")

\* await consumer.connect(): called after an await, on the consumer the module
\* variable holds by then.
kafka_consumerConnect(k) ==
  /\ kafka.followed
  /\ kafka.call[k].pc = "consumerConnect"
  /\ \E ok \in BOOLEAN :
       kafka' = IF ok
                THEN [kafka EXCEPT !.call[k].pc = "admin",
                                   !.consumersConnected = @ \cup {kafka.consumer}]
                ELSE kafka_catch(k)
  /\ UNCHANGED gameVars
  /\ auxUnchangedExcept("kafka")

\* admin.connect, listTopics, createTopics, admin.disconnect; then
\* isInitialized = true and the call returns.
kafka_admin(k) ==
  /\ kafka.followed
  /\ kafka.call[k].pc = "admin"
  /\ \E ok \in BOOLEAN :
       kafka' = IF ok
                THEN [kafka EXCEPT !.call[k].pc = "initialized",
                                   !.isInitialized = TRUE]
                ELSE kafka_catch(k)
  /\ UNCHANGED gameVars
  /\ auxUnchangedExcept("kafka")

InitKafka ==
  /\ kafka = [followed |-> TRUE, isInitialized |-> FALSE, producer |-> NoClient,
              consumer |-> NoClient, created |-> 0,
              producersConnected |-> {}, consumersConnected |-> {},
              call |-> [k \in InitCallers |->
                          [pc |-> "notCalled", calls |-> 0, object |-> NoClient]]]
  /\ gameIdle
  /\ auxIdleExcept("kafka")

NextKafka ==
  \E k \in InitCallers :
    \/ kafka_initializeKafka(k)
    \/ kafka_producerConnect(k)
    \/ kafka_consumerConnect(k)
    \/ kafka_admin(k)

SpecKafka == InitKafka /\ [][NextKafka]_vars

\* Some call of initializeKafka has run to its end without an error.
someCallInitialized == \E k \in InitCallers : kafka.call[k].pc = "initialized"

\* C39: however initializeKafka is called, at most one producer and one
\* consumer are connected; getProducer and getConsumer throw until a call has
\* completed and not after.
C39_OneProducerOneConsumer ==
  kafka.followed =>
    /\ Cardinality(kafka.producersConnected) <= 1
    /\ Cardinality(kafka.consumersConnected) <= 1
    /\ ~getProducer_throws => someCallInitialized
    /\ ~getConsumer_throws => someCallInitialized
    /\ someCallInitialized => ~getProducer_throws /\ ~getConsumer_throws

(* ------------------------------------------------------------------ *)
(* redis.ts: calculateTapMetrics, the tapVelocity of a first tap      *)
(* ------------------------------------------------------------------ *)
\* C40: for every history that is not empty and every now not earlier than
\* its newest entry, calculateTapMetrics returns a tapVelocity that is finite
\* and not negative, also when the oldest entry of the 3-second window is at
\* now.
C40_TapVelocityFinite ==
  (/\ tapMetrics.called = "returned"
   /\ tapMetrics.tapTimestamps # <<>>
   /\ tapMetrics.currentTimestamp >= tapMetrics.tapTimestamps[1]) =>
    /\ ~tapMetrics.result.tapVelocity.infinite
    /\ tapMetrics.result.tapVelocity.tenths >= 0

====
